---- MODULE Spec2Model ----
(***************************************************************************)
(* SignalFormControl: the adapter that puts a legacy imperative control    *)
(* interface (setValue / patchValue / reset, value / status / errors       *)
(* getters, valueChanges) over a writable signal and the field node that   *)
(* compatForm derives from it.  The model follows the extended variant of  *)
(* the class (signal_form_control.ts lines 237-452).                       *)
(*                                                                         *)
(* Specifications:                                                         *)
(*   Spec               the control with one of four schemas, driven by    *)
(*                      its mutators, by external writes to the signal     *)
(*                      and by runs of the value-change effect;            *)
(*   SpecStream         schema none with a valueChanges subscriber;        *)
(*   SpecGetters        the status and errors getters applied to every     *)
(*                      field node state;                                  *)
(*   SpecGroup          the control inside a parent group whose value and  *)
(*                      status streams are subscribed;                     *)
(*   SpecCallbacks      registration of view callbacks (registerOnChange); *)
(*   SpecMarks          markAsTouched / markAsDirty and the parent's marks;*)
(*   SpecStatus         the status-change effect and a statusChanges       *)
(*                      subscriber;                                        *)
(*   SpecDisabledChange the status-change effect and the callbacks of      *)
(*                      registerOnDisabledChange;                          *)
(*   SpecLeaf           the tree-integration stubs (_forEachChild, ...);   *)
(*   SpecView           input and blur events of a view bound to a control *)
(*                      nested in a group;                                 *)
(*   SpecImportMin      importMinValidator applied to control values;      *)
(*   SpecConvert        convertOldValidatorToNewOne over legacy validators;*)
(*   SpecSteps          setValue / patchValue / reset statement by         *)
(*                      statement, with probes between the statements;     *)
(*   SpecObservers      the mutators with both effects and both callback   *)
(*                      lists;                                             *)
(*   SpecFirstRun       the control from construction to the first runs of *)
(*                      the value-change effect;                           *)
(*   SpecPristine       markAsPristine and updateValueAndValidity among    *)
(*                      the mutators, the marks and both effects;          *)
(*   SpecRegistrations  registration and unregistration of both kinds of   *)
(*                      callback;                                          *)
(*   SpecReactive       reactiveErrorsToSignalErrors over legacy errors.   *)
(***************************************************************************)
EXTENDS Integers, Sequences, FiniteSets, TLC

VARIABLES
    schema,                      \* the schema given to the constructor
    source,                      \* the WritableSignal<T>'s current value
    field,                       \* the field node's derived state
    pendingParentNotifications,  \* private counter of the control
    onChangeCallbacks,           \* private list of the control
    parent,                      \* AbstractControl.parent
    valueEffectDirty,            \* the value-change effect is scheduled
    dirtyByCall,                 \* history: a setValue/patchValue that notified the parent scheduled it
    extPending,                  \* history: an external write the parent has not been told about
    trace,                       \* history: setValue calls and deliveries seen by the latest subscriber
    last,                        \* history: what the last operation did
    read,                        \* the result of the last getter read (SpecGetters)
    group,                       \* the parent's aggregated value and status
    groupEvents,                 \* history: calls and parent emissions seen by the parent's latest subscriber
    marks,                       \* the touched and dirty marks of the field node and of the parent
    statusEffect,                \* the status-change effect: what it last saw, whether it has to run
    lastDisabledState,           \* private field of the control
    onDisabledChangeCallbacks,   \* private list of the control
    statusTrace,                 \* history: setValue calls and statuses seen by the statusChanges subscriber
    minValidator,                \* a validator made by importMinValidator(min)(n): its closure and its last call
    converted,                   \* a field validated through convertOldValidatorToNewOne, with its inner control
    reactive                     \* a legacy errors object handed to reactiveErrorsToSignalErrors, and the result

observerVars == <<statusEffect, lastDisabledState, onDisabledChangeCallbacks, statusTrace>>

compatVars == <<minValidator, converted, reactive>>

vars == <<schema, source, field, pendingParentNotifications, onChangeCallbacks,
          parent, valueEffectDirty, dirtyByCall, extPending, trace, last, read,
          group, groupEvents, marks, statusEffect, lastDisabledState,
          onDisabledChangeCallbacks, statusTrace, minValidator, converted,
          reactive>>

-----------------------------------------------------------------------------
(* Bounds *)

MaxPending == 3

MaxTrace == 4

MaxCallbacks == 2

MaxErrors == 2

MaxEvents == 4

MaxStatuses == 6

MaxCalls == 2

MaxRegistered == 3

MaxEntries == 3

-----------------------------------------------------------------------------
(* Values *)

\* `undefined`, encoded as an integer outside the numbers the tests use
\* (undefined > 15 is false in the source language, as -1 > 15 is here).
Undefined == -1

Values == {Undefined, 10, 20}

\* disabled(p, ({value}) => value() > 15)
DisableThreshold == 15

NoParent == "null"

Parents == {"group"}

Callbacks == {"f"}

\* Two callbacks that can be told apart, to see the order of invocation.
ViewCallbacks == {"f", "g"}

Schemas == {"none", "required", "disabledWhen", "validateAsync"}

Tri == {"undefined", "true", "false"}

\* ValueUpdateOptions; options omitted altogether is NoOptions.
NoOptions ==
    [onlySelf |-> FALSE, emitEvent |-> "undefined",
     emitModelToViewChange |-> "undefined", emitViewToModelChange |-> "undefined"]

OptionsSet ==
    { NoOptions,
      [NoOptions EXCEPT !.onlySelf = TRUE],
      [NoOptions EXCEPT !.emitEvent = "false"],
      [NoOptions EXCEPT !.emitModelToViewChange = "false"],
      [NoOptions EXCEPT !.emitViewToModelChange = "false"] }

ErrorKinds == {"required", "async-invalid"}

\* An entry of the field node's ordered error list.
ErrorEntries == [kind : ErrorKinds, context : 1..2]

ErrorLists == UNION { [1..n -> ErrorEntries] : n \in 0..MaxErrors }

-----------------------------------------------------------------------------
(* The field node (compatForm(source, schema)) *)

NoErrors == <<>>

FieldState(d, v, i, p, errs) ==
    [disabled |-> d, valid |-> v, invalid |-> i, pending |-> p, errors |-> errs]

\* The field node's state for a value under a synchronous schema, and right
\* after a value change under validateAsync (a new validation is outstanding).
FieldFor(s, v) ==
    CASE s = "none" -> FieldState(FALSE, TRUE, FALSE, FALSE, NoErrors)
      [] s = "required" ->
            IF v = Undefined
              THEN FieldState(FALSE, FALSE, TRUE, FALSE,
                              <<[kind |-> "required", context |-> 1]>>)
              ELSE FieldState(FALSE, TRUE, FALSE, FALSE, NoErrors)
      [] s = "disabledWhen" ->
            FieldState(v > DisableThreshold, TRUE, FALSE, FALSE, NoErrors)
      [] s = "validateAsync" -> FieldState(FALSE, FALSE, FALSE, TRUE, NoErrors)

\* The field node once the outstanding validation resolved with errs.
FieldResolved(errs) ==
    FieldState(FALSE, errs = NoErrors, errs # NoErrors, FALSE, errs)

-----------------------------------------------------------------------------
(* Getters *)

value == source

\* A plausible slip: validity is looked at before the disabled flag.
status_ValidFirst ==
    IF field.valid THEN "VALID"
    ELSE IF field.disabled THEN "DISABLED"
    ELSE IF field.invalid THEN "INVALID"
    ELSE "PENDING"

\* A plausible slip: the valid branch is missing.
status_NoValidBranch ==
    IF field.disabled THEN "DISABLED"
    ELSE IF field.invalid THEN "INVALID"
    ELSE "PENDING"

status ==
    IF field.disabled THEN "DISABLED"
    ELSE IF field.valid THEN "VALID"
    ELSE IF field.invalid THEN "INVALID"
    ELSE "PENDING"

valid == field.valid

\* A plausible slip: invalid taken to be the opposite of valid.
invalid_NotValid == ~field.valid

invalid == field.invalid

\* A plausible slip: pending taken to be the opposite of valid.
pending_NotValid == ~field.valid

pending == field.pending

dirty == marks.dirty

touched == marks.touched

disabled == field.disabled

\* A plausible slip: the negation is missing.
enabled_NotNegated == field.disabled

enabled == ~field.disabled

Kinds(list) == { list[i].kind : i \in 1..Len(list) }

RECURSIVE FoldErrors(_, _)
\* for (const error of errors) result[error.kind] = error;
FoldErrors(list, result) ==
    IF list = <<>> THEN result
    ELSE LET error == Head(list)
             assigned == [k \in (DOMAIN result) \cup {error.kind} |->
                             IF k = error.kind THEN error ELSE result[k]]
         IN FoldErrors(Tail(list), assigned)

EmptyMap == [k \in {} |-> 0]

RECURSIVE FoldErrorsFirst(_, _)
\* A plausible slip: result[error.kind] ??= error (the first of a kind stays).
FoldErrorsFirst(list, result) ==
    IF list = <<>> THEN result
    ELSE LET error == Head(list)
             assigned == [k \in (DOMAIN result) \cup {error.kind} |->
                             IF k \in DOMAIN result THEN result[k] ELSE error]
         IN FoldErrorsFirst(Tail(list), assigned)

errors_FirstWins ==
    IF Len(field.errors) = 0 THEN [isNull |-> TRUE, map |-> EmptyMap]
    ELSE [isNull |-> FALSE, map |-> FoldErrorsFirst(field.errors, EmptyMap)]

\* A plausible slip: the empty list is folded into an empty object.
errors_NoEmptyCheck ==
    [isNull |-> FALSE, map |-> FoldErrors(field.errors, EmptyMap)]

\* null is [isNull |-> TRUE]; a ValidationErrors object is its map.
errors ==
    IF Len(field.errors) = 0 THEN [isNull |-> TRUE, map |-> EmptyMap]
    ELSE [isNull |-> FALSE, map |-> FoldErrors(field.errors, EmptyMap)]

-----------------------------------------------------------------------------
(* History records *)

ParentCall(emitEvent) == [emitEvent |-> emitEvent, sourceControl |-> "this"]

\* The operations that write v into the signal.
Writes(op, v) ==
    \/ op \in {"setValue", "patchValue", "write"}
    \/ op = "reset" /\ v # Undefined

\* What an operation did, with what held when it started: whether a parent
\* was attached, whether the write changed the signal, the status before.
Did(op, v, options, parentCalls, onChange, emitted, byCall) ==
    [op |-> op, value |-> v, options |-> options, hadParent |-> parent # NoParent,
     wrote |-> Writes(op, v), changed |-> Writes(op, v) /\ v # source,
     before |-> status,
     parentCalls |-> parentCalls, onChange |-> onChange, emitted |-> emitted,
     byCall |-> byCall]

Closed == <<[k |-> "closed", v |-> Undefined]>>

\* The subscriber's window with one more event; it closes when it is full.
Record(k, v) ==
    IF trace = Closed \/ Len(trace) >= MaxTrace THEN Closed
    ELSE Append(trace, [k |-> k, v |-> v])

NoRead == [getter |-> "none", status |-> "none", errors |-> [isNull |-> TRUE, map |-> EmptyMap]]

-----------------------------------------------------------------------------
(* The composite parent: a group whose only child is the control *)

NoGroup == [value |-> Undefined, status |-> "none"]

Deaf == <<[k |-> "deaf", v |-> Undefined, status |-> "none", notifies |-> FALSE]>>

\* The parent subscriber's window with one more event; it closes when full.
Heard(window, k, v, st, notifies) ==
    IF window = Deaf \/ Len(window) >= MaxEvents THEN Deaf
    ELSE Append(window, [k |-> k, v |-> v, status |-> st, notifies |-> notifies])

\* The window once a setValue or patchValue call with these options is noted.
HeardCall(op, v, options) ==
    IF op \in {"setValue", "patchValue"}
      THEN Heard(groupEvents, "call", v, "none",
                 ~options.onlySelf /\ options.emitEvent # "false")
      ELSE Deaf

\* parent.updateValueAndValidity(opts) for each of the calls made (at most
\* one): the parent takes the child's value and status of that moment, and
\* emits both on its streams unless opts.emitEvent is false.
parentUpdateValueAndValidity(calls, window) ==
    /\ group' = IF calls = <<>> THEN group
                ELSE [value |-> source', status |-> status']
    /\ groupEvents' = IF calls = <<>> \/ calls[1].emitEvent = "false" THEN window
                      ELSE Heard(window, "group", source', status', TRUE)

-----------------------------------------------------------------------------
(* The status-change effect *)

\* The effect as the specifications that do not follow it keep it.
Unwatched ==
    [watched |-> FALSE, hasRun |-> FALSE, memo |-> "none", bumped |-> FALSE,
     seen |-> "none", notified |-> "undefined"]

\* The effect right after construction: created dirty, nothing seen yet.
Watched == [Unwatched EXCEPT !.watched = TRUE]

ToTri(b) == IF b THEN "true" ELSE "false"

Unheard == <<[k |-> "unheard", v |-> Undefined, status |-> "none"]>>

\* The statusChanges subscriber's window with one more event.
Told(k, v, st) ==
    IF statusTrace = Unheard \/ Len(statusTrace) >= MaxStatuses THEN Unheard
    ELSE Append(statusTrace, [k |-> k, v |-> v, status |-> st])

\* The flags the effect read (disabled, valid, invalid) are memoized: a
\* reader that finds them changed since they were last computed recomputes
\* them, and from then on the effect, once it has run, counts them as
\* changed even if they change back before its next run.
Polled ==
    IF ~statusEffect.watched \/ ~statusEffect.hasRun \/ statusEffect.memo = status
      THEN statusEffect
      ELSE [statusEffect EXCEPT !.memo = status, !.bumped = TRUE]

\* The effect has to run: it never ran, or a flag it read has changed.
StatusEffectDue ==
    /\ statusEffect.watched
    /\ \/ ~statusEffect.hasRun
       \/ statusEffect.bumped
       \/ statusEffect.memo # status

\* The on-disabled-change callback invocations of one forEach.
DisabledChange(isDisabled) ==
    [i \in 1..Len(onDisabledChangeCallbacks) |->
        [fn |-> onDisabledChangeCallbacks[i], isDisabled |-> isDisabled]]

\* What a run of the effect did: the status it emitted, whether it was the
\* first run, whether a reader had found the flags changed since the run
\* before, what it found recorded, the callbacks it invoked.
DidStatus(st, invoked) ==
    Did("statusEffect", Undefined, NoOptions, <<>>, <<>>, <<st>>, FALSE) @@
    [first |-> ~statusEffect.hasRun, seenBefore |-> statusEffect.seen,
     bumped |-> statusEffect.bumped,
     recorded |-> lastDisabledState, notifiedBefore |-> statusEffect.notified,
     onDisabledChange |-> invoked]

\* A plausible slip: the effect compares without asking whether anything was
\* recorded, so its first run invokes the callbacks.
StatusEffect_NotifiesFirst ==
    /\ StatusEffectDue
    /\ LET st == status
           isDisabled == disabled
           differs == lastDisabledState # ToTri(isDisabled)
       IN /\ statusTrace' = Told("emit", Undefined, st)
          /\ lastDisabledState' = ToTri(isDisabled)
          /\ statusEffect' = [statusEffect EXCEPT
                                 !.hasRun = TRUE, !.memo = st, !.bumped = FALSE, !.seen = st,
                                 !.notified = IF differs THEN ToTri(isDisabled) ELSE @]
          /\ last' = DidStatus(st, IF differs THEN DisabledChange(isDisabled) ELSE <<>>)
    /\ UNCHANGED <<schema, source, field, pendingParentNotifications,
                   onChangeCallbacks, parent, valueEffectDirty, dirtyByCall,
                   extPending, trace, read, group, groupEvents, marks,
                   onDisabledChangeCallbacks>>
    /\ UNCHANGED compatVars

\* A plausible slip: the status is emitted only when the disabled state toggled.
StatusEffect_EmitsOnToggle ==
    /\ StatusEffectDue
    /\ LET st == status
           isDisabled == disabled
           differs == lastDisabledState # "undefined" /\ lastDisabledState # ToTri(isDisabled)
       IN /\ statusTrace' = IF differs THEN Told("emit", Undefined, st) ELSE statusTrace
          /\ lastDisabledState' = ToTri(isDisabled)
          /\ statusEffect' = [statusEffect EXCEPT
                                 !.hasRun = TRUE, !.memo = st, !.bumped = FALSE,
                                 !.seen = IF differs THEN st ELSE @,
                                 !.notified = IF differs THEN ToTri(isDisabled) ELSE @]
          /\ last' = [DidStatus(st, IF differs THEN DisabledChange(isDisabled) ELSE <<>>)
                        EXCEPT !.emitted = IF differs THEN <<st>> ELSE <<>>]
    /\ UNCHANGED <<schema, source, field, pendingParentNotifications,
                   onChangeCallbacks, parent, valueEffectDirty, dirtyByCall,
                   extPending, trace, read, group, groupEvents, marks,
                   onDisabledChangeCallbacks>>
    /\ UNCHANGED compatVars

\* A plausible slip: the status effect takes a credit as the value effect does.
StatusEffect_TakesCredit ==
    /\ StatusEffectDue
    /\ LET st == status
           isDisabled == disabled
           differs == lastDisabledState # "undefined" /\ lastDisabledState # ToTri(isDisabled)
       IN /\ statusTrace' = Told("emit", Undefined, st)
          /\ lastDisabledState' = ToTri(isDisabled)
          /\ statusEffect' = [statusEffect EXCEPT
                                 !.hasRun = TRUE, !.memo = st, !.bumped = FALSE, !.seen = st,
                                 !.notified = IF differs THEN ToTri(isDisabled) ELSE @]
          /\ last' = DidStatus(st, IF differs THEN DisabledChange(isDisabled) ELSE <<>>)
    /\ pendingParentNotifications' =
          IF pendingParentNotifications > 0 THEN pendingParentNotifications - 1
          ELSE pendingParentNotifications
    /\ UNCHANGED <<schema, source, field,
                   onChangeCallbacks, parent, valueEffectDirty, dirtyByCall,
                   extPending, trace, read, group, groupEvents, marks,
                   onDisabledChangeCallbacks>>
    /\ UNCHANGED compatVars

\* A plausible slip: the status is emitted once more where the disabled
\* state is found toggled.
StatusEffect_EmitsAgainOnToggle ==
    /\ StatusEffectDue
    /\ LET st == status
           isDisabled == disabled
           differs == lastDisabledState # "undefined" /\ lastDisabledState # ToTri(isDisabled)
           told == Told("emit", Undefined, st)
       IN /\ statusTrace' =
                IF ~differs THEN told
                ELSE IF told = Unheard \/ Len(told) >= MaxStatuses THEN Unheard
                ELSE Append(told, [k |-> "emit", v |-> Undefined, status |-> st])
          /\ lastDisabledState' = ToTri(isDisabled)
          /\ statusEffect' = [statusEffect EXCEPT
                                 !.hasRun = TRUE, !.memo = st, !.bumped = FALSE, !.seen = st,
                                 !.notified = IF differs THEN ToTri(isDisabled) ELSE @]
          /\ last' = [DidStatus(st, IF differs THEN DisabledChange(isDisabled) ELSE <<>>)
                        EXCEPT !.emitted = IF differs THEN <<st, st>> ELSE <<st>>]
    /\ UNCHANGED <<schema, source, field, pendingParentNotifications,
                   onChangeCallbacks, parent, valueEffectDirty, dirtyByCall,
                   extPending, trace, read, group, groupEvents, marks,
                   onDisabledChangeCallbacks>>
    /\ UNCHANGED compatVars

\* One run of the status-change effect.
StatusEffect ==
    /\ StatusEffectDue
    /\ LET st == status
           isDisabled == disabled
           differs == lastDisabledState # "undefined" /\ lastDisabledState # ToTri(isDisabled)
       IN /\ statusTrace' = Told("emit", Undefined, st)
          /\ lastDisabledState' = ToTri(isDisabled)
          /\ statusEffect' = [statusEffect EXCEPT
                                 !.hasRun = TRUE, !.memo = st, !.bumped = FALSE, !.seen = st,
                                 !.notified = IF differs THEN ToTri(isDisabled) ELSE @]
          /\ last' = DidStatus(st, IF differs THEN DisabledChange(isDisabled) ELSE <<>>)
    /\ UNCHANGED <<schema, source, field, pendingParentNotifications,
                   onChangeCallbacks, parent, valueEffectDirty, dirtyByCall,
                   extPending, trace, read, group, groupEvents, marks,
                   onDisabledChangeCallbacks>>
    /\ UNCHANGED compatVars

\* Some reader (a template, a test, the parent) looks at the status after it
\* changed: the flags are recomputed.
PollStatus ==
    /\ Polled # statusEffect
    /\ statusEffect' = Polled
    /\ UNCHANGED <<schema, source, field, pendingParentNotifications,
                   onChangeCallbacks, parent, valueEffectDirty, dirtyByCall,
                   extPending, trace, last, read, group, groupEvents, marks,
                   lastDisabledState, onDisabledChangeCallbacks, statusTrace>>
    /\ UNCHANGED compatVars

registerOnDisabledChange(fn) ==
    /\ Len(onDisabledChangeCallbacks) < MaxCallbacks
    /\ onDisabledChangeCallbacks' = Append(onDisabledChangeCallbacks, fn)
    /\ last' = Did("registerOnDisabledChange", Undefined, NoOptions, <<>>, <<>>, <<>>, FALSE)
    /\ UNCHANGED <<schema, source, field, pendingParentNotifications,
                   onChangeCallbacks, parent, valueEffectDirty, dirtyByCall,
                   extPending, trace, read, group, groupEvents, marks,
                   statusEffect, lastDisabledState, statusTrace>>
    /\ UNCHANGED compatVars

-----------------------------------------------------------------------------
(* The mutation protocol *)

\* A plausible slip: the parent branch returns the parent without counting.
prepareParentPropagation_NoCount(options) ==
    IF options.onlySelf
      THEN [pending |-> pendingParentNotifications + 1, parent |-> NoParent]
      ELSE [pending |-> pendingParentNotifications, parent |-> parent]

\* A plausible slip: an onlySelf call is not counted, so the effect run that
\* follows it takes the write for an external one.
prepareParentPropagation_OnlySelfUncounted(options) ==
    IF options.onlySelf
      THEN [pending |-> pendingParentNotifications, parent |-> NoParent]
    ELSE IF parent # NoParent
      THEN [pending |-> pendingParentNotifications + 1, parent |-> parent]
    ELSE [pending |-> pendingParentNotifications, parent |-> NoParent]

\* The counter after the call, and the parent the call returns.
prepareParentPropagation(options) ==
    IF options.onlySelf
      THEN [pending |-> pendingParentNotifications + 1, parent |-> NoParent]
    ELSE IF parent # NoParent
      THEN [pending |-> pendingParentNotifications + 1, parent |-> parent]
    ELSE [pending |-> pendingParentNotifications, parent |-> NoParent]

\* A plausible slip: a silent update is taken to need no parent call.
notifyParent_OnlyWhenEmitting(p, options) ==
    IF p = NoParent \/ options.emitEvent = "false" THEN <<>>
    ELSE <<ParentCall(options.emitEvent)>>

\* The calls of parent.updateValueAndValidity that notifyParent makes.
notifyParent(p, options) ==
    IF p = NoParent THEN <<>> ELSE <<ParentCall(options.emitEvent)>>

\* A plausible slip: a write of the value already held is taken to need no
\* view update.
emitModelChanges_OnlyOnChange(v, options) ==
    IF options.emitModelToViewChange = "false" \/ v = source THEN <<>>
    ELSE [i \in 1..Len(onChangeCallbacks) |->
            [fn |-> onChangeCallbacks[i], value |-> v,
             emitModelEvent |-> options.emitViewToModelChange # "false"]]

\* The on-change callback invocations that emitModelChanges makes.
emitModelChanges(v, options) ==
    IF options.emitModelToViewChange = "false" THEN <<>>
    ELSE [i \in 1..Len(onChangeCallbacks) |->
            [fn |-> onChangeCallbacks[i], value |-> v,
             emitModelEvent |-> options.emitViewToModelChange # "false"]]

\* this.source.set(v): the signal notifies its consumers only when the new
\* value differs from the current one.
SourceSet(v) ==
    /\ source' = v
    /\ field' = IF v # source THEN FieldFor(schema, v) ELSE field
    /\ valueEffectDirty' = (valueEffectDirty \/ v # source)

\* What the history variables keep of a mutator call that wrote v and made
\* the parent calls `calls`.
Noted(op, v, options, calls) ==
    /\ dirtyByCall' = (dirtyByCall \/ (/\ op \in {"setValue", "patchValue"}
                                       /\ calls # <<>>
                                       /\ v # source))
    /\ extPending' = (extPending /\ calls = <<>>)
    /\ last' = Did(op, v, options, calls, emitModelChanges(v, options), <<>>, FALSE)
    /\ trace' = IF op = "setValue" THEN Record("setValue", v) ELSE Closed

\* What they keep of a call that only asked the parent to revalidate.
NotedNoWrite(op, v, options, calls) ==
    /\ extPending' = (extPending /\ calls = <<>>)
    /\ last' = Did(op, v, options, calls, <<>>, <<>>, FALSE)
    /\ UNCHANGED <<dirtyByCall, trace>>

\* A plausible slip: a value the schema finds invalid is refused.
setValue_RejectsInvalid(v, options) ==
    LET prepared == prepareParentPropagation(options)
    IN /\ ~FieldFor(schema, v).invalid
       /\ prepared.pending <= MaxPending
       /\ pendingParentNotifications' = prepared.pending
       /\ SourceSet(v)
       /\ Noted("setValue", v, options, notifyParent(prepared.parent, options))
       /\ UNCHANGED <<schema, onChangeCallbacks, parent, read>>
       /\ parentUpdateValueAndValidity(notifyParent(prepared.parent, options),
                                       HeardCall("setValue", v, options))
       /\ UNCHANGED marks
       /\ statusTrace' = Told("setValue", v, "none")
       /\ UNCHANGED <<statusEffect, lastDisabledState, onDisabledChangeCallbacks>>
       /\ UNCHANGED compatVars

\* A plausible slip: a call with the value already held returns at once.
setValue_SkipsEqual(v, options) ==
    IF v = source
      THEN /\ NotedNoWrite("setValue", v, options, <<>>)
           /\ UNCHANGED <<schema, source, field, pendingParentNotifications,
                          onChangeCallbacks, parent, valueEffectDirty, read>>
           /\ parentUpdateValueAndValidity(<<>>, Deaf)
           /\ UNCHANGED marks
           /\ UNCHANGED observerVars
           /\ UNCHANGED compatVars
      ELSE LET prepared == prepareParentPropagation(options)
           IN /\ prepared.pending <= MaxPending
              /\ pendingParentNotifications' = prepared.pending
              /\ SourceSet(v)
              /\ Noted("setValue", v, options, notifyParent(prepared.parent, options))
              /\ UNCHANGED <<schema, onChangeCallbacks, parent, read>>
              /\ parentUpdateValueAndValidity(notifyParent(prepared.parent, options),
                                              HeardCall("setValue", v, options))
              /\ UNCHANGED marks
              /\ statusTrace' = Told("setValue", v, "none")
              /\ UNCHANGED <<statusEffect, lastDisabledState, onDisabledChangeCallbacks>>
              /\ UNCHANGED compatVars

setValue(v, options) ==
    LET prepared == prepareParentPropagation(options)
    IN /\ prepared.pending <= MaxPending
       /\ pendingParentNotifications' = prepared.pending
       /\ SourceSet(v)
       /\ Noted("setValue", v, options, notifyParent(prepared.parent, options))
       /\ UNCHANGED <<schema, onChangeCallbacks, parent, read>>
       /\ parentUpdateValueAndValidity(notifyParent(prepared.parent, options),
                                       HeardCall("setValue", v, options))
       /\ UNCHANGED marks
       /\ statusTrace' = Told("setValue", v, "none")
       /\ UNCHANGED <<statusEffect, lastDisabledState, onDisabledChangeCallbacks>>
       /\ UNCHANGED compatVars

\* A plausible slip: patchValue leaves the view callbacks out.
patchValue_NoModelChanges(v, options) ==
    LET prepared == prepareParentPropagation(options)
    IN /\ prepared.pending <= MaxPending
       /\ pendingParentNotifications' = prepared.pending
       /\ SourceSet(v)
       /\ dirtyByCall' = (dirtyByCall \/ (notifyParent(prepared.parent, options) # <<>> /\ v # source))
       /\ extPending' = (extPending /\ notifyParent(prepared.parent, options) = <<>>)
       /\ last' = Did("patchValue", v, options, notifyParent(prepared.parent, options),
                      <<>>, <<>>, FALSE)
       /\ trace' = Closed
       /\ UNCHANGED <<schema, onChangeCallbacks, parent, read>>
       /\ parentUpdateValueAndValidity(notifyParent(prepared.parent, options),
                                       HeardCall("patchValue", v, options))
       /\ UNCHANGED marks
       /\ UNCHANGED observerVars
       /\ UNCHANGED compatVars

patchValue(v, options) ==
    LET prepared == prepareParentPropagation(options)
    IN /\ prepared.pending <= MaxPending
       /\ pendingParentNotifications' = prepared.pending
       /\ SourceSet(v)
       /\ Noted("patchValue", v, options, notifyParent(prepared.parent, options))
       /\ UNCHANGED <<schema, onChangeCallbacks, parent, read>>
       /\ parentUpdateValueAndValidity(notifyParent(prepared.parent, options),
                                       HeardCall("patchValue", v, options))
       /\ UNCHANGED marks
       /\ UNCHANGED observerVars
       /\ UNCHANGED compatVars

\* A plausible slip: reset notifies but drops the value.
reset_NoWrite(v, options) ==
    /\ NotedNoWrite("reset", v, options,
                    IF ~options.onlySelf /\ parent # NoParent
                      THEN <<ParentCall(options.emitEvent)>> ELSE <<>>)
    /\ UNCHANGED <<schema, source, field, pendingParentNotifications,
                   onChangeCallbacks, parent, valueEffectDirty, read>>
    /\ parentUpdateValueAndValidity(IF ~options.onlySelf /\ parent # NoParent
                                      THEN <<ParentCall(options.emitEvent)>> ELSE <<>>,
                                    Deaf)
    /\ UNCHANGED marks
    /\ UNCHANGED observerVars
    /\ UNCHANGED compatVars

\* A plausible slip: the branch without a value forgets to look at onlySelf.
reset_AlwaysNotifies(v, options) ==
    IF v # Undefined
      THEN LET prepared == prepareParentPropagation(options)
           IN /\ prepared.pending <= MaxPending
              /\ pendingParentNotifications' = prepared.pending
              /\ SourceSet(v)
              /\ Noted("reset", v, options, notifyParent(prepared.parent, options))
              /\ UNCHANGED <<schema, onChangeCallbacks, parent, read>>
              /\ parentUpdateValueAndValidity(notifyParent(prepared.parent, options),
                                              HeardCall("reset", v, options))
              /\ UNCHANGED marks
              /\ UNCHANGED observerVars
              /\ UNCHANGED compatVars
      ELSE /\ NotedNoWrite("reset", v, options,
                           IF parent # NoParent
                             THEN <<ParentCall(options.emitEvent)>> ELSE <<>>)
           /\ UNCHANGED <<schema, source, field, pendingParentNotifications,
                          onChangeCallbacks, parent, valueEffectDirty, read>>
           /\ parentUpdateValueAndValidity(IF parent # NoParent
                                             THEN <<ParentCall(options.emitEvent)>> ELSE <<>>,
                                           Deaf)
           /\ UNCHANGED marks
           /\ UNCHANGED observerVars
           /\ UNCHANGED compatVars

reset(v, options) ==
    IF v # Undefined
      THEN LET prepared == prepareParentPropagation(options)
           IN /\ prepared.pending <= MaxPending
              /\ pendingParentNotifications' = prepared.pending
              /\ SourceSet(v)
              /\ Noted("reset", v, options, notifyParent(prepared.parent, options))
              /\ UNCHANGED <<schema, onChangeCallbacks, parent, read>>
              /\ parentUpdateValueAndValidity(notifyParent(prepared.parent, options),
                                              HeardCall("reset", v, options))
              /\ UNCHANGED marks
              /\ UNCHANGED observerVars
              /\ UNCHANGED compatVars
      ELSE /\ NotedNoWrite("reset", v, options,
                           IF ~options.onlySelf /\ parent # NoParent
                             THEN <<ParentCall(options.emitEvent)>> ELSE <<>>)
           /\ UNCHANGED <<schema, source, field, pendingParentNotifications,
                          onChangeCallbacks, parent, valueEffectDirty, read>>
           /\ parentUpdateValueAndValidity(IF ~options.onlySelf /\ parent # NoParent
                                             THEN <<ParentCall(options.emitEvent)>> ELSE <<>>,
                                           Deaf)
           /\ UNCHANGED marks
           /\ UNCHANGED observerVars
           /\ UNCHANGED compatVars

\* External code holding the raw signal writes a new value into it.
ExternalWrite(v) ==
    /\ v # source
    /\ SourceSet(v)
    /\ extPending' = (extPending \/ parent # NoParent)
    /\ last' = Did("write", v, NoOptions, <<>>, <<>>, <<>>, FALSE)
    /\ trace' = Closed
    /\ groupEvents' = Deaf
    /\ UNCHANGED <<schema, pendingParentNotifications, onChangeCallbacks, parent,
                   dirtyByCall, read, group>>
    /\ UNCHANGED marks
    /\ UNCHANGED observerVars
    /\ UNCHANGED compatVars

\* What a run of the value-change effect found: the counter, and the
\* operation that came right before it.
Found ==
    [found |-> pendingParentNotifications, afterOp |-> last.op,
     afterOnlySelf |-> last.options.onlySelf, afterWrote |-> last.wrote]

\* A plausible slip: the emission sits in the else branch with the parent call.
ValueEffect_EmitInElse ==
    /\ valueEffectDirty
    /\ valueEffectDirty' = FALSE
    /\ dirtyByCall' = FALSE
    /\ IF pendingParentNotifications > 0
         THEN /\ pendingParentNotifications' = pendingParentNotifications - 1
              /\ last' = Did("valueEffect", source, NoOptions, <<>>, <<>>, <<>>, dirtyByCall) @@ Found
              /\ UNCHANGED <<extPending, trace>>
         ELSE /\ UNCHANGED pendingParentNotifications
              /\ extPending' = (extPending /\ parent = NoParent)
              /\ last' = Did("valueEffect", source, NoOptions,
                             IF parent # NoParent THEN <<ParentCall("undefined")>> ELSE <<>>,
                             <<>>, <<source>>, dirtyByCall) @@ Found
              /\ trace' = Record("emit", source)
    /\ UNCHANGED <<schema, source, field, onChangeCallbacks, parent, read>>
    /\ parentUpdateValueAndValidity(IF pendingParentNotifications = 0 /\ parent # NoParent
                                      THEN <<ParentCall("undefined")>> ELSE <<>>,
                                    groupEvents)
    /\ UNCHANGED marks
    /\ UNCHANGED observerVars
    /\ UNCHANGED compatVars

\* A plausible slip: the run takes a credit and notifies the parent as well.
ValueEffect_AlwaysNotifies ==
    /\ valueEffectDirty
    /\ valueEffectDirty' = FALSE
    /\ dirtyByCall' = FALSE
    /\ LET currentValue == source
           calls == IF parent # NoParent THEN <<ParentCall("undefined")>> ELSE <<>>
       IN /\ pendingParentNotifications' =
                 IF pendingParentNotifications > 0
                   THEN pendingParentNotifications - 1
                   ELSE pendingParentNotifications
          /\ extPending' = (extPending /\ calls = <<>>)
          /\ last' = Did("valueEffect", currentValue, NoOptions, calls, <<>>,
                         <<currentValue>>, dirtyByCall) @@ Found
          /\ trace' = Record("emit", currentValue)
    /\ UNCHANGED <<schema, source, field, onChangeCallbacks, parent, read>>
    /\ parentUpdateValueAndValidity(IF parent # NoParent
                                      THEN <<ParentCall("undefined")>> ELSE <<>>,
                                    groupEvents)
    /\ UNCHANGED marks
    /\ UNCHANGED observerVars
    /\ UNCHANGED compatVars

\* A plausible slip: the test reads >= 0, so a run that finds no credit
\* takes one all the same.
ValueEffect_TakesAtZero ==
    /\ valueEffectDirty
    /\ valueEffectDirty' = FALSE
    /\ dirtyByCall' = FALSE
    /\ LET currentValue == source
       IN /\ pendingParentNotifications' = pendingParentNotifications - 1
          /\ UNCHANGED extPending
          /\ last' = Did("valueEffect", currentValue, NoOptions, <<>>, <<>>,
                         <<currentValue>>, dirtyByCall) @@ Found
          /\ trace' = Record("emit", currentValue)
    /\ UNCHANGED <<schema, source, field, onChangeCallbacks, parent, read>>
    /\ parentUpdateValueAndValidity(<<>>, groupEvents)
    /\ UNCHANGED marks
    /\ UNCHANGED observerVars
    /\ UNCHANGED compatVars

\* One run of the value-change effect.
ValueEffect ==
    /\ valueEffectDirty
    /\ valueEffectDirty' = FALSE
    /\ dirtyByCall' = FALSE
    /\ LET currentValue == source
           calls == IF pendingParentNotifications = 0 /\ parent # NoParent
                      THEN <<ParentCall("undefined")>> ELSE <<>>
       IN /\ pendingParentNotifications' =
                 IF pendingParentNotifications > 0
                   THEN pendingParentNotifications - 1
                   ELSE pendingParentNotifications
          /\ extPending' = (extPending /\ calls = <<>>)
          /\ last' = Did("valueEffect", currentValue, NoOptions, calls, <<>>,
                         <<currentValue>>, dirtyByCall) @@ Found
          /\ trace' = Record("emit", currentValue)
    /\ UNCHANGED <<schema, source, field, onChangeCallbacks, parent, read>>
    /\ parentUpdateValueAndValidity(IF pendingParentNotifications = 0 /\ parent # NoParent
                                      THEN <<ParentCall("undefined")>> ELSE <<>>,
                                    groupEvents)
    /\ UNCHANGED marks
    /\ UNCHANGED observerVars
    /\ UNCHANGED compatVars

registerOnChange(fn) ==
    /\ Len(onChangeCallbacks) < MaxCallbacks
    /\ onChangeCallbacks' = Append(onChangeCallbacks, fn)
    /\ last' = Did("registerOnChange", Undefined, NoOptions, <<>>, <<>>, <<>>, FALSE)
    /\ UNCHANGED <<schema, source, field, pendingParentNotifications, parent,
                   valueEffectDirty, dirtyByCall, extPending, trace, read,
                   group, groupEvents>>
    /\ UNCHANGED marks
    /\ UNCHANGED observerVars
    /\ UNCHANGED compatVars

\* removeListItem(list, el): removes the first occurrence of el, if any.
removeListItem(list, el) ==
    IF \E i \in 1..Len(list) : list[i] = el
      THEN LET index == CHOOSE i \in 1..Len(list) :
                           /\ list[i] = el
                           /\ \A j \in 1..(i - 1) : list[j] # el
           IN SubSeq(list, 1, index - 1) \o SubSeq(list, index + 1, Len(list))
      ELSE list

unregisterOnDisabledChange(fn) ==
    /\ onDisabledChangeCallbacks' = removeListItem(onDisabledChangeCallbacks, fn)
    /\ last' = Did("unregisterOnDisabledChange", Undefined, NoOptions, <<>>, <<>>, <<>>, FALSE)
    /\ UNCHANGED <<schema, source, field, pendingParentNotifications,
                   onChangeCallbacks, parent, valueEffectDirty, dirtyByCall,
                   extPending, trace, read, group, groupEvents, marks,
                   statusEffect, lastDisabledState, statusTrace>>
    /\ UNCHANGED compatVars

\* A plausible slip: every registration of fn is dropped, not one.
unregisterOnChange_RemovesAll(fn) ==
    /\ onChangeCallbacks' = SelectSeq(onChangeCallbacks, LAMBDA el : el # fn)
    /\ last' = Did("unregisterOnChange", Undefined, NoOptions, <<>>, <<>>, <<>>, FALSE)
    /\ UNCHANGED <<schema, source, field, pendingParentNotifications, parent,
                   valueEffectDirty, dirtyByCall, extPending, trace, read,
                   group, groupEvents>>
    /\ UNCHANGED marks
    /\ UNCHANGED observerVars
    /\ UNCHANGED compatVars

unregisterOnChange(fn) ==
    /\ onChangeCallbacks' = removeListItem(onChangeCallbacks, fn)
    /\ last' = Did("unregisterOnChange", Undefined, NoOptions, <<>>, <<>>, <<>>, FALSE)
    /\ UNCHANGED <<schema, source, field, pendingParentNotifications, parent,
                   valueEffectDirty, dirtyByCall, extPending, trace, read,
                   group, groupEvents>>
    /\ UNCHANGED marks
    /\ UNCHANGED observerVars
    /\ UNCHANGED compatVars

\* The control is put under a parent (the parent takes its value then) or
\* taken out of it.
setParent(p) ==
    /\ p # parent
    /\ parent' = p
    /\ extPending' = FALSE
    /\ last' = Did("setParent", Undefined, NoOptions, <<>>, <<>>, <<>>, FALSE)
    /\ group' = IF p = NoParent THEN NoGroup ELSE [value |-> source, status |-> status]
    /\ groupEvents' = Deaf
    /\ marks' = [marks EXCEPT !.parentTouched = FALSE, !.parentDirty = FALSE]
    /\ UNCHANGED <<schema, source, field, pendingParentNotifications,
                   onChangeCallbacks, valueEffectDirty, dirtyByCall, trace, read>>
    /\ UNCHANGED observerVars
    /\ UNCHANGED compatVars

\* valueChanges.subscribe(...): a new subscriber starts watching.
Subscribe ==
    /\ trace # <<>>
    /\ trace' = <<>>
    /\ last' = Did("subscribe", Undefined, NoOptions, <<>>, <<>>, <<>>, FALSE)
    /\ UNCHANGED <<schema, source, field, pendingParentNotifications,
                   onChangeCallbacks, parent, valueEffectDirty, dirtyByCall,
                   extPending, read, group, groupEvents>>
    /\ UNCHANGED marks
    /\ UNCHANGED observerVars
    /\ UNCHANGED compatVars

\* The marks of a new control: untouched and pristine, as is its parent.
NoMarks ==
    [touched |-> FALSE, dirty |-> FALSE, parentTouched |-> FALSE, parentDirty |-> FALSE]

MarkOptions == {[NoOptions EXCEPT !.onlySelf = b] : b \in BOOLEAN}

\* The marks after this.field().markAsTouched(); super.markAsTouched(opts):
\* the field node is touched, and so is every ancestor unless opts.onlySelf.
Touched(opts) ==
    [marks EXCEPT !.touched = TRUE,
                  !.parentTouched = @ \/ (parent # NoParent /\ ~opts.onlySelf)]

\* A plausible slip: the call to super is missing, the ancestors stay pristine.
Dirtied_SelfOnly(opts) == [marks EXCEPT !.dirty = TRUE]

\* The marks after this.field().markAsDirty(); super.markAsDirty(opts).
Dirtied(opts) ==
    [marks EXCEPT !.dirty = TRUE,
                  !.parentDirty = @ \/ (parent # NoParent /\ ~opts.onlySelf)]

\* A plausible slip: a touched control is taken to be dirty as well.
markAsTouched_AlsoDirty(opts) ==
    /\ marks' = [marks EXCEPT !.touched = TRUE, !.dirty = TRUE,
                              !.parentTouched = @ \/ (parent # NoParent /\ ~opts.onlySelf)]
    /\ last' = Did("markAsTouched", Undefined, opts, <<>>, <<>>, <<>>, FALSE)
    /\ UNCHANGED <<schema, source, field, pendingParentNotifications,
                   onChangeCallbacks, parent, valueEffectDirty, dirtyByCall,
                   extPending, trace, read, group, groupEvents>>
    /\ UNCHANGED observerVars
    /\ UNCHANGED compatVars

\* this.field().markAsTouched(); super.markAsTouched(opts): the field node is
\* touched, and so is the parent unless opts.onlySelf.
markAsTouched(opts) ==
    /\ marks' = Touched(opts)
    /\ last' = Did("markAsTouched", Undefined, opts, <<>>, <<>>, <<>>, FALSE)
    /\ UNCHANGED <<schema, source, field, pendingParentNotifications,
                   onChangeCallbacks, parent, valueEffectDirty, dirtyByCall,
                   extPending, trace, read, group, groupEvents>>
    /\ UNCHANGED observerVars
    /\ UNCHANGED compatVars

\* this.field().markAsDirty(); super.markAsDirty(opts)
markAsDirty(opts) ==
    /\ marks' = Dirtied(opts)
    /\ last' = Did("markAsDirty", Undefined, opts, <<>>, <<>>, <<>>, FALSE)
    /\ UNCHANGED <<schema, source, field, pendingParentNotifications,
                   onChangeCallbacks, parent, valueEffectDirty, dirtyByCall,
                   extPending, trace, read, group, groupEvents>>
    /\ UNCHANGED observerVars
    /\ UNCHANGED compatVars

\* A plausible slip: markAsPristine clears the dirty mark, as the base class
\* does for an ordinary control.
markAsPristine_ClearsDirty(opts) ==
    /\ marks' = [marks EXCEPT !.dirty = FALSE]
    /\ last' = Did("markAsPristine", Undefined, opts, <<>>, <<>>, <<>>, FALSE)
    /\ UNCHANGED <<schema, source, field, pendingParentNotifications,
                   onChangeCallbacks, parent, valueEffectDirty, dirtyByCall,
                   extPending, trace, read, group, groupEvents>>
    /\ UNCHANGED observerVars
    /\ UNCHANGED compatVars

\* override markAsPristine(opts?): void {}
markAsPristine(opts) ==
    /\ last' = Did("markAsPristine", Undefined, opts, <<>>, <<>>, <<>>, FALSE)
    /\ UNCHANGED <<schema, source, field, pendingParentNotifications,
                   onChangeCallbacks, parent, valueEffectDirty, dirtyByCall,
                   extPending, trace, read, group, groupEvents>>
    /\ UNCHANGED marks
    /\ UNCHANGED observerVars
    /\ UNCHANGED compatVars

\* override updateValueAndValidity(opts?): void {}
updateValueAndValidity ==
    /\ last' = Did("updateValueAndValidity", Undefined, NoOptions, <<>>, <<>>, <<>>, FALSE)
    /\ UNCHANGED <<schema, source, field, pendingParentNotifications,
                   onChangeCallbacks, parent, valueEffectDirty, dirtyByCall,
                   extPending, trace, read, group, groupEvents>>
    /\ UNCHANGED marks
    /\ UNCHANGED observerVars
    /\ UNCHANGED compatVars

AsyncResults == {NoErrors, <<[kind |-> "async-invalid", context |-> 1]>>}

\* The outstanding asynchronous validation resolves.
ResolveAsync(errs) ==
    /\ schema = "validateAsync"
    /\ field.pending
    /\ field' = FieldResolved(errs)
    /\ last' = Did("resolve", Undefined, NoOptions, <<>>, <<>>, <<>>, FALSE) @@
                [resolved |-> errs]
    /\ UNCHANGED <<schema, source, pendingParentNotifications, onChangeCallbacks,
                   parent, valueEffectDirty, dirtyByCall, extPending, trace, read,
                   group, groupEvents>>
    /\ UNCHANGED marks
    /\ UNCHANGED observerVars
    /\ UNCHANGED compatVars

\* control.status is read.
ReadStatus ==
    /\ read' = [NoRead EXCEPT !.getter = "status", !.status = status]
    /\ statusEffect' = Polled
    /\ UNCHANGED <<lastDisabledState, onDisabledChangeCallbacks, statusTrace>>
    /\ UNCHANGED <<schema, source, field, pendingParentNotifications,
                   onChangeCallbacks, parent, valueEffectDirty, dirtyByCall,
                   extPending, trace, last, group, groupEvents>>
    /\ UNCHANGED marks
    /\ UNCHANGED compatVars

\* control.errors is read.
ReadErrors ==
    /\ read' = [NoRead EXCEPT !.getter = "errors", !.errors = errors]
    /\ UNCHANGED <<schema, source, field, pendingParentNotifications,
                   onChangeCallbacks, parent, valueEffectDirty, dirtyByCall,
                   extPending, trace, last, group, groupEvents>>
    /\ UNCHANGED marks
    /\ UNCHANGED observerVars
    /\ UNCHANGED compatVars

-----------------------------------------------------------------------------
(* Values of the source language, for the validator converters *)

\* Numbers are kept in hundredths (1.25 is 125); NaN is a number of its own.
JsNumber(n) == [t |-> "number", n |-> n, s |-> ""]

JsString(s) == [t |-> "string", n |-> 0, s |-> s]

JsNull == [t |-> "null", n |-> 0, s |-> ""]

JsUndefined == [t |-> "undefined", n |-> 0, s |-> ""]

JsNaN == [t |-> "NaN", n |-> 0, s |-> ""]

\* Number.prototype.toString for the numbers in use.
NumberToString(v) ==
    CASE v.t = "NaN" -> "NaN"
      [] v.n = 0 -> "0"
      [] v.n = 100 -> "1"
      [] v.n = 120 -> "1.2"
      [] v.n = 125 -> "1.25"
      [] v.n = 200 -> "2"
      [] v.n = 300 -> "3"

\* n.toString() of a number or a string.
toString(v) == IF v.t = "string" THEN v.s ELSE NumberToString(v)

\* parseFloat(s): the number written by the longest numeric prefix of s, NaN
\* when there is none.
parseFloat(s) ==
    CASE s \in {"0"} -> JsNumber(0)
      [] s \in {"1"} -> JsNumber(100)
      [] s \in {"1.2"} -> JsNumber(120)
      [] s \in {"1.25"} -> JsNumber(125)
      [] s \in {"2", "2px"} -> JsNumber(200)
      [] s \in {"3"} -> JsNumber(300)
      [] OTHER -> JsNaN

\* ToNumber(v), the conversion the < operator applies to an operand: a string
\* converts as a whole (the empty string to 0, one with a trailing unit to
\* NaN), null to 0, undefined to NaN.
ToNumber(v) ==
    CASE v.t \in {"number", "NaN"} -> v
      [] v.t = "null" -> JsNumber(0)
      [] v.t = "undefined" -> JsNaN
      [] v.t = "string" ->
            IF v.s = "" THEN JsNumber(0)
            ELSE IF v.s = "2px" THEN JsNaN
            ELSE parseFloat(v.s)

\* a < b for a of any type and b a number: false when either side is NaN.
LessThan(a, b) ==
    LET pa == ToNumber(a)
        pb == ToNumber(b)
    IN pa.t = "number" /\ pb.t = "number" /\ pa.n < pb.n

-----------------------------------------------------------------------------
(* importMinValidator: the new min rule as a legacy validator *)

\* The errors of form(model, (p) => min(p, minValue)) for the model's value:
\* one error of kind min when the value is below the minimum.
MinRuleErrors(model, minValue) ==
    IF LessThan(model, minValue) THEN <<[kind |-> "min"]>> ELSE <<>>

NullResult == [isNull |-> TRUE, map |-> EmptyMap]

RECURSIVE ReduceErrors_Parsed(_, _, _, _)
\* A plausible slip: the parsed minimum is reported instead of n as given.
ReduceErrors_Parsed(errs, acc, n, actual) ==
    IF errs = <<>> THEN acc
    ELSE LET error == Head(errs)
             assigned == [k \in (DOMAIN acc) \cup {error.kind} |->
                             IF k = error.kind
                               THEN [min |-> parseFloat(toString(n)), actual |-> actual]
                               ELSE acc[k]]
         IN ReduceErrors_Parsed(Tail(errs), assigned, n, actual)

RECURSIVE ReduceErrors(_, _, _, _)
\* errors.reduce((acc, error) => { acc[error.kind] = {min: n, actual: c.value};
\* return acc; }, {})
ReduceErrors(errs, acc, n, actual) ==
    IF errs = <<>> THEN acc
    ELSE LET error == Head(errs)
             assigned == [k \in (DOMAIN acc) \cup {error.kind} |->
                             IF k = error.kind THEN [min |-> n, actual |-> actual]
                                               ELSE acc[k]]
         IN ReduceErrors(Tail(errs), assigned, n, actual)

NoModel == [t |-> "none", n |-> 0, s |-> ""]

\* No validator has been made (the specifications of the control).
NoValidator ==
    [n |-> JsUndefined, minValue |-> JsNaN, model |-> NoModel, called |-> FALSE,
     value |-> JsUndefined, result |-> NullResult, earlier |-> <<>>]

\* importMinValidator(min)(n): for n null or undefined a validator without a
\* model; otherwise one that closes over minValue and a model signal of 0.
importMinValidator(n) ==
    IF n = JsNull \/ n = JsUndefined
      THEN [NoValidator EXCEPT !.n = n]
      ELSE [NoValidator EXCEPT !.n = n, !.minValue = parseFloat(toString(n)),
                               !.model = JsNumber(0)]

\* A plausible slip: the errors are read before the model is set, so they
\* are those of the value validated before.
MinValidatorCall_ReadsFirst(validator, x) ==
    IF validator.model = NoModel THEN [model |-> NoModel, result |-> NullResult]
    ELSE IF x = JsNull \/ x = JsString("")
      THEN [model |-> validator.model, result |-> NullResult]
    ELSE LET errs == MinRuleErrors(validator.model, validator.minValue)
         IN [model |-> x,
             result |-> IF Len(errs) = 0 THEN NullResult
                        ELSE [isNull |-> FALSE,
                              map |-> ReduceErrors(errs, EmptyMap, validator.n, x)]]

\* One call validator(c) with c.value = x: the model signal after it and the
\* result returned.
MinValidatorCall(validator, x) ==
    IF validator.model = NoModel THEN [model |-> NoModel, result |-> NullResult]
    ELSE IF x = JsNull \/ x = JsString("")
      THEN [model |-> validator.model, result |-> NullResult]
    ELSE LET model == x
             errs == MinRuleErrors(model, validator.minValue)
         IN [model |-> model,
             result |-> IF Len(errs) = 0 THEN NullResult
                        ELSE [isNull |-> FALSE,
                              map |-> ReduceErrors(errs, EmptyMap, validator.n, x)]]

\* The arguments n the tests give, and a string with a trailing unit.
MinArgs ==
    { JsNull, JsUndefined, JsNumber(200), JsNumber(125), JsNumber(120),
      JsString("2"), JsString("2px"), JsString("a") }

\* The control values the tests give, and a string with a trailing unit.
ControlValues ==
    { JsNull, JsUndefined, JsString(""), JsString("a"), JsString("1"),
      JsString("2"), JsString("2px"),
      JsNumber(100), JsNumber(120), JsNumber(125), JsNumber(200), JsNumber(300) }

\* The calls made before the last one, the latest last; the oldest is
\* forgotten when there are more than MaxCalls.
Earlier(validator) ==
    LET all == Append(validator.earlier,
                      [value |-> validator.value, isNull |-> validator.result.isNull])
    IN IF ~validator.called THEN <<>>
       ELSE IF Len(all) > MaxCalls THEN Tail(all)
       ELSE all

\* No field is validated through a converted validator.
NoConversion == [legacy |-> "none"]

-----------------------------------------------------------------------------
(* reactiveErrorsToSignalErrors *)

\* Keys of a legacy ValidationErrors object; "7" stands for the keys that
\* are array indices, which Object.entries lists before all others.
LegacyKeys == {"7", "min", "pattern", "required"}

IsIndexKey(key) == key = "7"

LegacyContexts == 1..2

\* A legacy ValidationErrors object: its own properties in the order they
\* were added, no key twice; or null.
LegacyErrors ==
    {[isNull |-> TRUE, props |-> <<>>]} \cup
    { [isNull |-> FALSE, props |-> props] :
        props \in { p \in UNION { [1..n -> LegacyKeys \X LegacyContexts] : n \in 0..MaxEntries } :
                      \A i, j \in 1..Len(p) : i # j => p[i][1] # p[j][1] } }

\* Object.entries(errors): index keys first, then the others in the order
\* they were added (one index key here, so no sorting among them).
ObjectEntries(obj) ==
    SelectSeq(obj.props, LAMBDA e : IsIndexKey(e[1])) \o
    SelectSeq(obj.props, LAMBDA e : ~IsIndexKey(e[1]))

\* A plausible slip: the constructor leaves the class's own kind in place.
ReactiveValidationError_KeepsKind(args) ==
    [kind |-> "reactive", context |-> args.context]

\* new ReactiveValidationError({context, kind}): the field initializer sets
\* kind to 'reactive', the constructor body then assigns both fields.
ReactiveValidationError(args) ==
    [kind |-> args.kind, context |-> args.context]

\* createError(ReactiveValidationError, undefined, {context, kind})
createError(args) == ReactiveValidationError(args)

reactiveErrorsToSignalErrors(errs) ==
    IF errs.isNull THEN <<>>
    ELSE LET entries == ObjectEntries(errs)
         IN [i \in 1..Len(entries) |->
                createError([context |-> entries[i][2], kind |-> entries[i][1]])]

\* No legacy errors have been handed over.
NoReactive == [called |-> FALSE, errors |-> [isNull |-> TRUE, props |-> <<>>], result |-> <<>>]

-----------------------------------------------------------------------------
(* The control *)

InitWith(schemas, window) ==
    /\ schema \in schemas
    /\ source \in Values
    /\ field = FieldFor(schema, source)
    /\ pendingParentNotifications = 0
    /\ onChangeCallbacks = <<>>
    /\ parent = NoParent
    /\ valueEffectDirty = TRUE
    /\ dirtyByCall = FALSE
    /\ extPending = FALSE
    /\ trace = window
    /\ last = Did("new", source, NoOptions, <<>>, <<>>, <<>>, FALSE)
    /\ read = NoRead
    /\ group = NoGroup
    /\ groupEvents = Deaf
    /\ marks = NoMarks
    /\ statusEffect = Unwatched
    /\ lastDisabledState = "undefined"
    /\ onDisabledChangeCallbacks = <<>>
    /\ statusTrace = Unheard
    /\ minValidator = NoValidator
    /\ converted = NoConversion
    /\ reactive = NoReactive

\* The control after construction; nobody watches valueChanges.
Init == InitWith(Schemas, Closed)

Next ==
    \/ \E v \in Values, options \in OptionsSet : setValue(v, options)
    \/ \E v \in Values, options \in OptionsSet : patchValue(v, options)
    \/ \E v \in Values, options \in OptionsSet : reset(v, options)
    \/ \E v \in Values : ExternalWrite(v)
    \/ ValueEffect
    \/ \E fn \in Callbacks : registerOnChange(fn)
    \/ \E fn \in Callbacks : unregisterOnChange(fn)
    \/ \E p \in Parents \cup {NoParent} : setParent(p)
    \/ \E errs \in AsyncResults : ResolveAsync(errs)

Spec == Init /\ [][Next]_vars

-----------------------------------------------------------------------------
(* The control without a schema, watched by a valueChanges subscriber *)

InitStream == InitWith({"none"}, <<>>)

NextStream ==
    \/ \E v \in Values, options \in OptionsSet : setValue(v, options)
    \/ \E v \in Values, options \in OptionsSet : patchValue(v, options)
    \/ \E v \in Values, options \in OptionsSet : reset(v, options)
    \/ \E v \in Values : ExternalWrite(v)
    \/ ValueEffect
    \/ \E p \in Parents \cup {NoParent} : setParent(p)
    \/ Subscribe

SpecStream == InitStream /\ [][NextStream]_vars

-----------------------------------------------------------------------------
(* The control as the only child of a group whose streams are watched *)

\* const group = new FormGroup({n: form}); group.valueChanges.subscribe(...);
\* group.statusChanges.subscribe(...)
InitGroup ==
    /\ schema \in {"none", "required"}
    /\ source \in Values
    /\ field = FieldFor(schema, source)
    /\ pendingParentNotifications = 0
    /\ onChangeCallbacks = <<>>
    /\ parent \in Parents
    /\ valueEffectDirty = TRUE
    /\ dirtyByCall = FALSE
    /\ extPending = FALSE
    /\ trace = Closed
    /\ last = Did("new", source, NoOptions, <<>>, <<>>, <<>>, FALSE)
    /\ read = NoRead
    /\ group = [value |-> source, status |-> status]
    /\ groupEvents = <<>>
    /\ marks = NoMarks
    /\ statusEffect = Unwatched
    /\ lastDisabledState = "undefined"
    /\ onDisabledChangeCallbacks = <<>>
    /\ statusTrace = Unheard
    /\ minValidator = NoValidator
    /\ converted = NoConversion
    /\ reactive = NoReactive

\* New subscribers start watching the parent's streams.
SubscribeGroup ==
    /\ groupEvents # <<>>
    /\ groupEvents' = <<>>
    /\ last' = Did("subscribeGroup", Undefined, NoOptions, <<>>, <<>>, <<>>, FALSE)
    /\ UNCHANGED <<schema, source, field, pendingParentNotifications,
                   onChangeCallbacks, parent, valueEffectDirty, dirtyByCall,
                   extPending, trace, read, group>>
    /\ UNCHANGED marks
    /\ UNCHANGED observerVars
    /\ UNCHANGED compatVars

NextGroup ==
    \/ \E v \in Values, options \in OptionsSet : setValue(v, options)
    \/ \E v \in Values, options \in OptionsSet : patchValue(v, options)
    \/ \E v \in Values, options \in OptionsSet : reset(v, options)
    \/ \E v \in Values : ExternalWrite(v)
    \/ ValueEffect
    \/ SubscribeGroup

SpecGroup == InitGroup /\ [][NextGroup]_vars

-----------------------------------------------------------------------------
(* The control without a schema, bound to views that register callbacks *)

InitCallbacks == InitWith({"none"}, Closed)

NextCallbacks ==
    \/ \E v \in Values, options \in OptionsSet : setValue(v, options)
    \/ \E v \in Values, options \in OptionsSet : patchValue(v, options)
    \/ \E v \in Values, options \in OptionsSet : reset(v, options)
    \/ \E v \in Values : ExternalWrite(v)
    \/ ValueEffect
    \/ \E fn \in ViewCallbacks : registerOnChange(fn)
    \/ \E fn \in ViewCallbacks : unregisterOnChange(fn)
    \/ \E p \in Parents \cup {NoParent} : setParent(p)

SpecCallbacks == InitCallbacks /\ [][NextCallbacks]_vars

-----------------------------------------------------------------------------
(* The control on its own, its statusChanges watched from construction on *)

InitObserved(schemas, window) ==
    /\ schema \in schemas
    /\ source \in Values
    /\ field = FieldFor(schema, source)
    /\ pendingParentNotifications = 0
    /\ onChangeCallbacks = <<>>
    /\ parent = NoParent
    /\ valueEffectDirty = TRUE
    /\ dirtyByCall = FALSE
    /\ extPending = FALSE
    /\ trace = Closed
    /\ last = Did("new", source, NoOptions, <<>>, <<>>, <<>>, FALSE)
    /\ read = NoRead
    /\ group = NoGroup
    /\ groupEvents = Deaf
    /\ marks = NoMarks
    /\ statusEffect = Watched
    /\ lastDisabledState = "undefined"
    /\ onDisabledChangeCallbacks = <<>>
    /\ statusTrace = window
    /\ minValidator = NoValidator
    /\ converted = NoConversion
    /\ reactive = NoReactive

\* form.statusChanges.subscribe((status) => statuses.push(status))
InitStatus == InitObserved(Schemas \ {"none"}, <<>>)

NextStatus ==
    \/ \E v \in Values : setValue(v, NoOptions)
    \/ PollStatus
    \/ StatusEffect
    \/ \E errs \in AsyncResults : ResolveAsync(errs)

SpecStatus == InitStatus /\ [][NextStatus]_vars

-----------------------------------------------------------------------------
(* The control bound to views that register on-disabled-change callbacks *)

InitDisabledChange == InitObserved({"none", "disabledWhen"}, Unheard)

NextDisabledChange ==
    \/ \E v \in Values : setValue(v, NoOptions)
    \/ \E v \in Values : ExternalWrite(v)
    \/ PollStatus
    \/ StatusEffect
    \/ \E fn \in ViewCallbacks : registerOnDisabledChange(fn)
    \/ \E fn \in ViewCallbacks : unregisterOnDisabledChange(fn)

SpecDisabledChange == InitDisabledChange /\ [][NextDisabledChange]_vars

-----------------------------------------------------------------------------
(* The control with its touched and dirty marks *)

InitMarks == InitWith(Schemas, Closed)

NextMarks ==
    \/ \E v \in Values : setValue(v, NoOptions)
    \/ ValueEffect
    \/ \E p \in Parents \cup {NoParent} : setParent(p)
    \/ \E errs \in AsyncResults : ResolveAsync(errs)
    \/ \E opts \in MarkOptions : markAsTouched(opts)
    \/ \E opts \in MarkOptions : markAsDirty(opts)

SpecMarks == InitMarks /\ [][NextMarks]_vars

-----------------------------------------------------------------------------
(* The control bound to an input inside nested groups *)

\* What the directive passes when the view changed:
\* control.setValue(control._pendingValue, {emitModelToViewChange: false})
ViewOptions == [NoOptions EXCEPT !.emitModelToViewChange = "false"]

\* An input event: the directive marks the control dirty and sets the typed
\* value without writing it back to the view.
ViewInput(v) ==
    LET prepared == prepareParentPropagation(ViewOptions)
        calls == notifyParent(prepared.parent, ViewOptions)
    IN /\ prepared.pending <= MaxPending
       /\ marks' = Dirtied(NoOptions)
       /\ pendingParentNotifications' = prepared.pending
       /\ SourceSet(v)
       /\ dirtyByCall' = (dirtyByCall \/ (calls # <<>> /\ v # source))
       /\ extPending' = (extPending /\ calls = <<>>)
       /\ last' = [Did("setValue", v, ViewOptions, calls,
                       emitModelChanges(v, ViewOptions), <<>>, FALSE)
                     EXCEPT !.op = "viewInput"]
       /\ trace' = Closed
       /\ parentUpdateValueAndValidity(calls, Deaf)
       /\ UNCHANGED <<schema, onChangeCallbacks, parent, read>>
       /\ UNCHANGED observerVars
       /\ UNCHANGED compatVars

\* A blur event: the directive marks the control touched.
ViewBlur ==
    /\ marks' = Touched(NoOptions)
    /\ last' = Did("viewBlur", Undefined, NoOptions, <<>>, <<>>, <<>>, FALSE)
    /\ UNCHANGED <<schema, source, field, pendingParentNotifications,
                   onChangeCallbacks, parent, valueEffectDirty, dirtyByCall,
                   extPending, trace, read, group, groupEvents>>
    /\ UNCHANGED observerVars
    /\ UNCHANGED compatVars

\* new FormGroup({user: new FormGroup({name: this.control})}), the input
\* bound with formControlName: a callback is registered, nothing is touched.
InitView ==
    /\ schema \in {"none", "required"}
    /\ source \in Values
    /\ field = FieldFor(schema, source)
    /\ pendingParentNotifications = 0
    /\ onChangeCallbacks = <<"f">>
    /\ parent \in Parents
    /\ valueEffectDirty = TRUE
    /\ dirtyByCall = FALSE
    /\ extPending = FALSE
    /\ trace = Closed
    /\ last = Did("new", source, NoOptions, <<>>, <<>>, <<>>, FALSE)
    /\ read = NoRead
    /\ group = [value |-> source, status |-> status]
    /\ groupEvents = Deaf
    /\ marks = NoMarks
    /\ statusEffect = Unwatched
    /\ lastDisabledState = "undefined"
    /\ onDisabledChangeCallbacks = <<>>
    /\ statusTrace = Unheard
    /\ minValidator = NoValidator
    /\ converted = NoConversion
    /\ reactive = NoReactive

NextView ==
    \/ \E v \in Values : ViewInput(v)
    \/ ViewBlur
    \/ \E v \in Values, options \in OptionsSet : setValue(v, options)
    \/ ValueEffect

SpecView == InitView /\ [][NextView]_vars

-----------------------------------------------------------------------------
(* A validator made by importMinValidator, called with control after control *)

controlVars ==
    <<schema, source, field, pendingParentNotifications, onChangeCallbacks,
      parent, valueEffectDirty, dirtyByCall, extPending, trace, last, read,
      group, groupEvents, marks, statusEffect, lastDisabledState,
      onDisabledChangeCallbacks, statusTrace>>

\* validator(new FormControl(x)), or a control revalidated after setValue(x)
Validate(x) ==
    /\ LET call == MinValidatorCall(minValidator, x)
       IN minValidator' = [minValidator EXCEPT
                              !.model = call.model, !.called = TRUE, !.value = x,
                              !.result = call.result,
                              !.earlier = Earlier(minValidator)]
    /\ UNCHANGED controlVars
    /\ UNCHANGED <<converted, reactive>>

\* convertedMin = importMinValidator(min); validator = convertedMin(n)
InitImportMin ==
    /\ schema = "none"
    /\ source = Undefined
    /\ field = FieldFor(schema, source)
    /\ pendingParentNotifications = 0
    /\ onChangeCallbacks = <<>>
    /\ parent = NoParent
    /\ valueEffectDirty = TRUE
    /\ dirtyByCall = FALSE
    /\ extPending = FALSE
    /\ trace = Closed
    /\ last = Did("new", source, NoOptions, <<>>, <<>>, <<>>, FALSE)
    /\ read = NoRead
    /\ group = NoGroup
    /\ groupEvents = Deaf
    /\ marks = NoMarks
    /\ statusEffect = Unwatched
    /\ lastDisabledState = "undefined"
    /\ onDisabledChangeCallbacks = <<>>
    /\ statusTrace = Unheard
    /\ minValidator \in {importMinValidator(n) : n \in MinArgs}
    /\ converted = NoConversion
    /\ reactive = NoReactive

NextImportMin == \E x \in ControlValues : Validate(x)

SpecImportMin == InitImportMin /\ [][NextImportMin]_vars

-----------------------------------------------------------------------------
(* convertOldValidatorToNewOne: a legacy validator as a rule of a field *)

\* isEmptyInputValue of the legacy validators.
isEmptyInputValue(v) == v \in {JsNull, JsUndefined, JsString("")}

\* !control.value
Falsy(v) == v \in {JsNull, JsUndefined, JsString(""), JsNumber(0), JsNaN}

\* An entry of a ValidationErrors object; the object is the sequence of its
\* entries in key order, and null has none.
ErrorEntry(kind, actual) == [kind |-> kind, context |-> [actual |-> actual]]

\* Validators.min(2)
ValidatorsMin(c) ==
    IF isEmptyInputValue(c.value) THEN <<>>
    ELSE LET parsed == parseFloat(toString(c.value))
         IN IF parsed.t = "number" /\ parsed.n < 200
              THEN <<ErrorEntry("min", c.value)>> ELSE <<>>

\* Validators.required
ValidatorsRequired(c) ==
    IF isEmptyInputValue(c.value) THEN <<ErrorEntry("required", c.value)>> ELSE <<>>

\* Validators.pattern(/^meow$/)
ValidatorsPattern(c) ==
    IF isEmptyInputValue(c.value) \/ toString(c.value) = "meow" THEN <<>>
    ELSE <<ErrorEntry("pattern", c.value)>>

\* catValidator: required when the value is missing, the pattern once the
\* control is dirty.
catValidator(c) ==
    IF Falsy(c.value) THEN <<ErrorEntry("required", c.value)>>
    ELSE IF c.dirty THEN ValidatorsPattern(c)
    ELSE <<>>

LegacyValidators == {"min", "required", "cat", "minAndPattern"}

\* validator(control); minAndPattern is Validators.compose([min, pattern]),
\* whose result holds the keys of both in that order.
LegacyResult(legacy, c) ==
    CASE legacy = "min" -> ValidatorsMin(c)
      [] legacy = "required" -> ValidatorsRequired(c)
      [] legacy = "cat" -> catValidator(c)
      [] legacy = "minAndPattern" -> ValidatorsMin(c) \o ValidatorsPattern(c)

FieldValues ==
    {JsString(""), JsString("meow"), JsString("woof"), JsNumber(100), JsNumber(300)}

\* const control = new FormControl(undefined, {validators: [validator]})
InnerControl(legacy) ==
    [value |-> JsNull, dirty |-> FALSE,
     errors |-> LegacyResult(legacy, [value |-> JsNull, dirty |-> FALSE])]

\* A field with value v validated through convertOldValidatorToNewOne(p, legacy):
\* pristine, its errors not computed yet.
Converted(legacy, v) ==
    [legacy |-> legacy, value |-> v, dirty |-> FALSE, needsRun |-> TRUE,
     control |-> InnerControl(legacy), validatedDirty |-> FALSE, errors |-> <<>>]

\* Object.entries(control.errors || {}).map(([kind]) => ({kind}))
KindEntries(entries) == [i \in 1..Len(entries) |-> [kind |-> entries[i].kind]]

\* A plausible slip: the errors are taken before the value is handed over.
ValidateFn_ReadsFirst(cv) ==
    LET entries == cv.control.errors
        set == [value |-> cv.value, dirty |-> cv.control.dirty,
                errors |-> LegacyResult(cv.legacy,
                                        [value |-> cv.value, dirty |-> cv.control.dirty])]
        marked == IF cv.dirty THEN [set EXCEPT !.dirty = TRUE] ELSE set
    IN [control |-> marked, errors |-> KindEntries(entries)]

\* One run of the function given to validate(p, ...): the inner control after
\* it and the errors returned.  setValue validates the inner control as dirty
\* as it is then; markAsDirty, which follows, validates nothing.
ValidateFn(cv) ==
    LET set == [value |-> cv.value, dirty |-> cv.control.dirty,
                errors |-> LegacyResult(cv.legacy,
                                        [value |-> cv.value, dirty |-> cv.control.dirty])]
        marked == IF cv.dirty THEN [set EXCEPT !.dirty = TRUE] ELSE set
        entries == marked.errors
    IN [control |-> marked, errors |-> KindEntries(entries)]

\* f.age().value.set(v)
FieldSet(v) ==
    /\ converted # NoConversion
    /\ v # converted.value
    /\ converted' = [converted EXCEPT !.value = v, !.needsRun = TRUE]
    /\ UNCHANGED controlVars
    /\ UNCHANGED <<minValidator, reactive>>

\* The field is marked dirty.
FieldMarkAsDirty ==
    /\ converted # NoConversion
    /\ ~converted.dirty
    /\ converted' = [converted EXCEPT !.dirty = TRUE, !.needsRun = TRUE]
    /\ UNCHANGED controlVars
    /\ UNCHANGED <<minValidator, reactive>>

\* f.age().errors() is read after the value or the dirty flag changed: the
\* validation function runs.
FieldErrors ==
    /\ converted # NoConversion
    /\ converted.needsRun
    /\ LET run == ValidateFn(converted)
       IN converted' = [converted EXCEPT
                           !.needsRun = FALSE, !.control = run.control,
                           !.validatedDirty = converted.control.dirty,
                           !.errors = run.errors]
    /\ UNCHANGED controlVars
    /\ UNCHANGED <<minValidator, reactive>>

InitConvert ==
    /\ schema = "none"
    /\ source = Undefined
    /\ field = FieldFor(schema, source)
    /\ pendingParentNotifications = 0
    /\ onChangeCallbacks = <<>>
    /\ parent = NoParent
    /\ valueEffectDirty = TRUE
    /\ dirtyByCall = FALSE
    /\ extPending = FALSE
    /\ trace = Closed
    /\ last = Did("new", source, NoOptions, <<>>, <<>>, <<>>, FALSE)
    /\ read = NoRead
    /\ group = NoGroup
    /\ groupEvents = Deaf
    /\ marks = NoMarks
    /\ statusEffect = Unwatched
    /\ lastDisabledState = "undefined"
    /\ onDisabledChangeCallbacks = <<>>
    /\ statusTrace = Unheard
    /\ minValidator = NoValidator
    /\ converted \in {Converted(legacy, v) : legacy \in LegacyValidators, v \in FieldValues}
    /\ reactive = NoReactive

NextConvert ==
    \/ \E v \in FieldValues : FieldSet(v)
    \/ FieldMarkAsDirty
    \/ FieldErrors

SpecConvert == InitConvert /\ [][NextConvert]_vars

-----------------------------------------------------------------------------
(* A mutator call followed statement by statement *)

\* A plausible slip: the parent is notified before the signal is written.
Steps_NotifyFirst ==
    <<"prepareParentPropagation", "notifyParent", "source.set", "emitModelChanges">>

\* The statements of setValue, patchValue and the value branch of reset.
Steps ==
    <<"prepareParentPropagation", "source.set", "notifyParent", "emitModelChanges">>

\* A call has been entered and has statements left.
InCall == "pc" \in DOMAIN last /\ last.pc < Len(Steps)

\* setValue(v, options), patchValue(v, options) or reset(v, options) with a
\* value is entered; nothing else runs until it returns.
CallBegin(op, v, options) ==
    /\ ~InCall
    /\ v # Undefined \/ op # "reset"
    /\ prepareParentPropagation(options).pending <= MaxPending
    /\ last' = Did(op, v, options, <<>>, <<>>, <<>>, FALSE) @@
                [pc |-> 0, captured |-> NoParent, order |-> <<>>,
                 parentAtOnChange |-> NoGroup]
    /\ trace' = Closed
    /\ groupEvents' = Deaf
    /\ UNCHANGED <<schema, source, field, pendingParentNotifications,
                   onChangeCallbacks, parent, valueEffectDirty, dirtyByCall,
                   extPending, read, group, marks>>
    /\ UNCHANGED observerVars
    /\ UNCHANGED compatVars

\* The next statement of the call entered.
CallStep ==
    /\ InCall
    /\ LET step == Steps[last.pc + 1]
           done == [last EXCEPT !.pc = @ + 1, !.order = Append(@, step)]
           calls == notifyParent(last.captured, last.options)
       IN \/ /\ step = "prepareParentPropagation"
             /\ pendingParentNotifications' = prepareParentPropagation(last.options).pending
             /\ last' = [done EXCEPT
                            !.captured = prepareParentPropagation(last.options).parent]
             /\ UNCHANGED <<source, field, valueEffectDirty, dirtyByCall, extPending,
                            group, groupEvents>>
          \/ /\ step = "source.set"
             /\ SourceSet(last.value)
             /\ dirtyByCall' = (dirtyByCall \/ (/\ last.op \in {"setValue", "patchValue"}
                                                /\ calls # <<>>
                                                /\ last.value # source))
             /\ last' = done
             /\ UNCHANGED <<pendingParentNotifications, extPending, group, groupEvents>>
          \/ /\ step = "notifyParent"
             /\ UNCHANGED <<source, field, valueEffectDirty, dirtyByCall,
                            pendingParentNotifications>>
             /\ parentUpdateValueAndValidity(calls, Deaf)
             /\ extPending' = (extPending /\ calls = <<>>)
             /\ last' = [done EXCEPT !.parentCalls = calls]
          \/ /\ step = "emitModelChanges"
             /\ last' = [done EXCEPT
                            !.onChange = emitModelChanges(last.value, last.options),
                            !.parentAtOnChange = group]
             /\ UNCHANGED <<source, field, valueEffectDirty, dirtyByCall, extPending,
                            pendingParentNotifications, group, groupEvents>>
    /\ UNCHANGED <<schema, onChangeCallbacks, parent, trace, read, marks>>
    /\ UNCHANGED observerVars
    /\ UNCHANGED compatVars

\* The effect runs between calls.
EffectBetweenCalls == ~InCall /\ ValueEffect

\* External code writes the signal between calls.
WriteBetweenCalls(v) == ~InCall /\ ExternalWrite(v)

\* A control under the required rule or without schema, with or without a
\* parent, bound to a view.
InitSteps ==
    /\ schema \in {"none", "required"}
    /\ source \in Values
    /\ field = FieldFor(schema, source)
    /\ pendingParentNotifications = 0
    /\ onChangeCallbacks = <<"f">>
    /\ parent \in Parents \cup {NoParent}
    /\ valueEffectDirty = TRUE
    /\ dirtyByCall = FALSE
    /\ extPending = FALSE
    /\ trace = Closed
    /\ last = Did("new", source, NoOptions, <<>>, <<>>, <<>>, FALSE)
    /\ read = NoRead
    /\ group = IF parent = NoParent THEN NoGroup ELSE [value |-> source, status |-> status]
    /\ groupEvents = Deaf
    /\ marks = NoMarks
    /\ statusEffect = Unwatched
    /\ lastDisabledState = "undefined"
    /\ onDisabledChangeCallbacks = <<>>
    /\ statusTrace = Unheard
    /\ minValidator = NoValidator
    /\ converted = NoConversion
    /\ reactive = NoReactive

NextSteps ==
    \/ \E op \in {"setValue", "patchValue", "reset"}, v \in Values, options \in OptionsSet :
          CallBegin(op, v, options)
    \/ CallStep
    \/ EffectBetweenCalls
    \/ \E v \in Values : WriteBetweenCalls(v)

SpecSteps == InitSteps /\ [][NextSteps]_vars

-----------------------------------------------------------------------------
(* The control from construction to the first runs of the value-change     *)
(* effect, its valueChanges subscribed before anything else happens        *)

\* form.valueChanges.subscribe((v) => emissions.push(v)) right after
\* construction: the effect was created scheduled and has not run.
InitFirstRun == InitWith({"none"}, <<>>)

NextFirstRun ==
    \/ \E v \in Values, options \in OptionsSet : setValue(v, options)
    \/ \E p \in Parents \cup {NoParent} : setParent(p)
    \/ ValueEffect

SpecFirstRun == InitFirstRun /\ [][NextFirstRun]_vars

-----------------------------------------------------------------------------
(* The control with its marks, both effects and a valueChanges subscriber *)

InitPristine ==
    /\ schema \in {"none", "required"}
    /\ source \in Values
    /\ field = FieldFor(schema, source)
    /\ pendingParentNotifications = 0
    /\ onChangeCallbacks = <<>>
    /\ parent = NoParent
    /\ valueEffectDirty = TRUE
    /\ dirtyByCall = FALSE
    /\ extPending = FALSE
    /\ trace = <<>>
    /\ last = Did("new", source, NoOptions, <<>>, <<>>, <<>>, FALSE)
    /\ read = NoRead
    /\ group = NoGroup
    /\ groupEvents = Deaf
    /\ marks = NoMarks
    /\ statusEffect = Watched
    /\ lastDisabledState = "undefined"
    /\ onDisabledChangeCallbacks = <<>>
    /\ statusTrace = Unheard
    /\ minValidator = NoValidator
    /\ converted = NoConversion
    /\ reactive = NoReactive

NextPristine ==
    \/ \E v \in Values : setValue(v, NoOptions)
    \/ \E v \in Values : patchValue(v, NoOptions)
    \/ \E v \in Values : reset(v, NoOptions)
    \/ ValueEffect
    \/ StatusEffect
    \/ \E opts \in MarkOptions : markAsTouched(opts)
    \/ \E opts \in MarkOptions : markAsDirty(opts)
    \/ \E opts \in MarkOptions : markAsPristine(opts)
    \/ updateValueAndValidity

SpecPristine == InitPristine /\ [][NextPristine]_vars

-----------------------------------------------------------------------------
(* The control with views registering and unregistering both kinds of      *)
(* callback                                                                *)

\* The callback lists that registrations can have built.
Registrations ==
    UNION { [1..n -> ViewCallbacks] : n \in 0..MaxRegistered }

\* A control under disabled(value > 15) whose status effect has been
\* created, with some registrations already made on both lists.
InitRegistrations ==
    /\ schema = "disabledWhen"
    /\ source \in {10, 20}
    /\ field = FieldFor(schema, source)
    /\ pendingParentNotifications = 0
    /\ onChangeCallbacks \in Registrations
    /\ parent = NoParent
    /\ valueEffectDirty = TRUE
    /\ dirtyByCall = FALSE
    /\ extPending = FALSE
    /\ trace = Closed
    /\ last = Did("new", source, NoOptions, <<>>, <<>>, <<>>, FALSE)
    /\ read = NoRead
    /\ group = NoGroup
    /\ groupEvents = Deaf
    /\ marks = NoMarks
    /\ statusEffect = Watched
    /\ lastDisabledState = "undefined"
    /\ onDisabledChangeCallbacks \in Registrations
    /\ statusTrace = Unheard
    /\ minValidator = NoValidator
    /\ converted = NoConversion
    /\ reactive = NoReactive

NextRegistrations ==
    \/ \E v \in {10, 20}, options \in {NoOptions, ViewOptions} : setValue(v, options)
    \/ StatusEffect
    \/ \E fn \in ViewCallbacks : registerOnChange(fn)
    \/ \E fn \in ViewCallbacks : unregisterOnChange(fn)
    \/ \E fn \in ViewCallbacks : registerOnDisabledChange(fn)
    \/ \E fn \in ViewCallbacks : unregisterOnDisabledChange(fn)

SpecRegistrations == InitRegistrations /\ [][NextRegistrations]_vars

-----------------------------------------------------------------------------
(* reactiveErrorsToSignalErrors applied to legacy errors objects *)

\* const signalErrors = reactiveErrorsToSignalErrors(errors)
ToSignalErrors ==
    /\ ~reactive.called
    /\ reactive' = [reactive EXCEPT
                       !.called = TRUE,
                       !.result = reactiveErrorsToSignalErrors(reactive.errors)]
    /\ UNCHANGED controlVars
    /\ UNCHANGED <<minValidator, converted>>

InitReactive ==
    /\ schema = "none"
    /\ source = Undefined
    /\ field = FieldFor(schema, source)
    /\ pendingParentNotifications = 0
    /\ onChangeCallbacks = <<>>
    /\ parent = NoParent
    /\ valueEffectDirty = TRUE
    /\ dirtyByCall = FALSE
    /\ extPending = FALSE
    /\ trace = Closed
    /\ last = Did("new", source, NoOptions, <<>>, <<>>, <<>>, FALSE)
    /\ read = NoRead
    /\ group = NoGroup
    /\ groupEvents = Deaf
    /\ marks = NoMarks
    /\ statusEffect = Unwatched
    /\ lastDisabledState = "undefined"
    /\ onDisabledChangeCallbacks = <<>>
    /\ statusTrace = Unheard
    /\ minValidator = NoValidator
    /\ converted = NoConversion
    /\ reactive \in {[NoReactive EXCEPT !.errors = e] : e \in LegacyErrors}

NextReactive == ToSignalErrors

SpecReactive == InitReactive /\ [][NextReactive]_vars

-----------------------------------------------------------------------------
(* The mutators and both effects side by side *)

InitObservers == InitObserved({"none", "disabledWhen"}, Unheard)

NextObservers ==
    \/ \E v \in Values, options \in OptionsSet : setValue(v, options)
    \/ \E v \in Values, options \in OptionsSet : patchValue(v, options)
    \/ \E v \in Values, options \in OptionsSet : reset(v, options)
    \/ ValueEffect
    \/ StatusEffect
    \/ \E fn \in Callbacks : registerOnChange(fn)
    \/ \E fn \in Callbacks : registerOnDisabledChange(fn)

SpecObservers == InitObservers /\ [][NextObservers]_vars

-----------------------------------------------------------------------------
(* The getters over every field node state *)

FieldStates ==
    { FieldState(d, v, i, p, errs) :
        d \in BOOLEAN, v \in BOOLEAN, i \in BOOLEAN, p \in BOOLEAN, errs \in ErrorLists }

InitGetters ==
    /\ schema = "none"
    /\ source = Undefined
    /\ field \in FieldStates
    /\ pendingParentNotifications = 0
    /\ onChangeCallbacks = <<>>
    /\ parent = NoParent
    /\ valueEffectDirty = TRUE
    /\ dirtyByCall = FALSE
    /\ extPending = FALSE
    /\ trace = Closed
    /\ last = Did("new", source, NoOptions, <<>>, <<>>, <<>>, FALSE)
    /\ read = NoRead
    /\ group = NoGroup
    /\ groupEvents = Deaf
    /\ marks = NoMarks
    /\ statusEffect = Unwatched
    /\ lastDisabledState = "undefined"
    /\ onDisabledChangeCallbacks = <<>>
    /\ statusTrace = Unheard
    /\ minValidator = NoValidator
    /\ converted = NoConversion
    /\ reactive = NoReactive

-----------------------------------------------------------------------------
(* The control as a node of the control tree *)

\* Conditions a parent asks of its descendants: (c) => c.disabled,
\* (c) => c.invalid, () => true.
Conditions == {"disabled", "invalid", "any"}

\* condition(this)
Holds(condition) ==
    CASE condition = "disabled" -> disabled
      [] condition = "invalid" -> invalid
      [] condition = "any" -> TRUE

\* The invocations of cb that _forEachChild(cb) makes.
_forEachChild(cb) == <<>>

\* A plausible slip: the control is taken to be its own only child.
_anyControls_AsksItself(condition) == Holds(condition)

_anyControls(condition) == FALSE

_allControlsDisabled == disabled

_syncPendingControls == FALSE

Asked(method, condition, result, invocations) ==
    [NoRead EXCEPT !.getter = method] @@
    [condition |-> condition, result |-> result, invocations |-> invocations]

ForEachChild(cb) ==
    /\ read' = Asked("_forEachChild", "none", FALSE, _forEachChild(cb))
    /\ UNCHANGED <<schema, source, field, pendingParentNotifications,
                   onChangeCallbacks, parent, valueEffectDirty, dirtyByCall,
                   extPending, trace, last, group, groupEvents, marks>>
    /\ UNCHANGED observerVars
    /\ UNCHANGED compatVars

AnyControls(condition) ==
    /\ read' = Asked("_anyControls", condition, _anyControls(condition), <<>>)
    /\ UNCHANGED <<schema, source, field, pendingParentNotifications,
                   onChangeCallbacks, parent, valueEffectDirty, dirtyByCall,
                   extPending, trace, last, group, groupEvents, marks>>
    /\ UNCHANGED observerVars
    /\ UNCHANGED compatVars

AllControlsDisabled ==
    /\ read' = Asked("_allControlsDisabled", "none", _allControlsDisabled, <<>>)
    /\ UNCHANGED <<schema, source, field, pendingParentNotifications,
                   onChangeCallbacks, parent, valueEffectDirty, dirtyByCall,
                   extPending, trace, last, group, groupEvents, marks>>
    /\ UNCHANGED observerVars
    /\ UNCHANGED compatVars

SyncPendingControls ==
    /\ read' = Asked("_syncPendingControls", "none", _syncPendingControls, <<>>)
    /\ UNCHANGED <<schema, source, field, pendingParentNotifications,
                   onChangeCallbacks, parent, valueEffectDirty, dirtyByCall,
                   extPending, trace, last, group, groupEvents, marks>>
    /\ UNCHANGED observerVars
    /\ UNCHANGED compatVars

InitLeaf == InitGetters

NextLeaf ==
    \/ \E cb \in ViewCallbacks : ForEachChild(cb)
    \/ \E condition \in Conditions : AnyControls(condition)
    \/ AllControlsDisabled
    \/ SyncPendingControls

SpecLeaf == InitLeaf /\ [][NextLeaf]_vars

-----------------------------------------------------------------------------
(* The getters read *)

NextGetters ==
    \/ ReadStatus
    \/ ReadErrors

SpecGetters == InitGetters /\ [][NextGetters]_vars

-----------------------------------------------------------------------------
(* Properties *)

IsOpen == trace # Closed

\* The subscriber's window from the first setValue call on.
RECURSIVE FromFirstCall(_)
FromFirstCall(t) ==
    IF t = <<>> THEN <<>>
    ELSE IF Head(t).k = "setValue" THEN t
    ELSE FromFirstCall(Tail(t))

IsCall(e) == e.k = "setValue"

IsEmit(e) == e.k = "emit"

ValuesOf(t) == [i \in 1..Len(t) |-> t[i].v]

Written == ValuesOf(SelectSeq(FromFirstCall(trace), IsCall))

Delivered == ValuesOf(SelectSeq(FromFirstCall(trace), IsEmit))

KindsOf(t) == [i \in 1..Len(t) |-> t[i].k]

\* C1: a setValue or patchValue call made without onlySelf while a parent is
\* attached invokes the parent's updateValueAndValidity exactly once itself,
\* and the run of the value-change effect that such a call scheduled does not
\* invoke it again: one invocation on account of the call, whenever the
\* effect runs and whatever value was written.
C1_ParentOncePerCall ==
    /\ (/\ last.op \in {"setValue", "patchValue"}
        /\ ~last.options.onlySelf
        /\ last.hadParent)
         => Len(last.parentCalls) = 1
    /\ (last.op = "valueEffect" /\ last.byCall) => last.parentCalls = <<>>

\* The effect ran on account of a notifying call and left the parent alone.
C1_Witness ==
    /\ last.op = "valueEffect"
    /\ last.byCall
    /\ parent # NoParent
    /\ last.parentCalls = <<>>

\* C2 as stated: after setValue(v1); setValue(v2) and the effect having run,
\* value is v2 and the subscriber has received exactly [v1, v2], however the
\* effect runs were placed relative to the two calls.
C2_DeliversBothAlways ==
    (IsOpen /\ Len(Written) = 2 /\ ~valueEffectDirty)
        => (value = Written[2] /\ Delivered = Written)

\* C2 as amended: after setValue(v1); setValue(v2) value is v2; every run of
\* the effect delivers the signal's value of that moment; so the subscriber
\* receives exactly [v1, v2] when the effect runs after each call, and only
\* [v2] when both calls precede one run.
C2_DeliversPerRun ==
    /\ (IsOpen /\ Len(trace) > 0 /\ IsCall(trace[Len(trace)]))
         => value = trace[Len(trace)].v
    /\ (IsOpen /\ last.op = "valueEffect")
         => (Len(trace) > 0 /\ trace[Len(trace)] = [k |-> "emit", v |-> value])
    /\ (IsOpen /\ KindsOf(FromFirstCall(trace)) = <<"setValue", "emit", "setValue", "emit">>)
         => (Delivered = Written /\ value = Written[2])
    /\ (IsOpen /\ KindsOf(FromFirstCall(trace)) = <<"setValue", "setValue", "emit">>)
         => (Delivered = <<Written[2]>> /\ value = Written[2])

\* Two different values, the effect run after each call: both delivered.
C2_Witness ==
    /\ IsOpen
    /\ KindsOf(trace) = <<"setValue", "emit", "setValue", "emit">>
    /\ Written[1] # Written[2]
    /\ Delivered = Written
    /\ parent # NoParent

\* C3: once the effect has run after an external write made while a parent
\* is attached, the parent has been asked to revalidate and the new value has
\* been emitted, whatever calls and runs came before.
C3_ExternalWriteReachesParent ==
    (last.op = "valueEffect") => (~extPending /\ last.emitted = <<value>>)

\* C4: value is the signal's value right after setValue, patchValue, reset
\* with a value and an external write, before any effect runs.
C4_ValueMirrorsCell ==
    last.wrote => value = last.value

\* An external write changed the signal and the effect has not run yet.
C4_Witness ==
    /\ last.op = "write"
    /\ last.changed
    /\ valueEffectDirty
    /\ value = last.value

\* C5: for every combination of the field node's flags, status is DISABLED
\* iff disabled; VALID iff valid and not disabled; INVALID iff invalid and
\* neither disabled nor valid; PENDING iff none of the three flags is set.
C5_StatusPrecedence ==
    (read.getter = "status") =>
        /\ (read.status = "DISABLED") = field.disabled
        /\ (read.status = "VALID") = (~field.disabled /\ field.valid)
        /\ (read.status = "INVALID") = (~field.disabled /\ ~field.valid /\ field.invalid)
        /\ (read.status = "PENDING") = (~field.disabled /\ ~field.valid /\ ~field.invalid)

\* disabled wins over valid and invalid both being reported.
C5_Witness ==
    /\ read.getter = "status"
    /\ field.disabled /\ field.valid /\ field.invalid
    /\ read.status = "DISABLED"

\* What the field node reports for the value v just written, told from the
\* schema alone.
ExpectDisabled(v) == schema = "disabledWhen" /\ v > DisableThreshold

ExpectInvalid(v) == schema = "required" /\ v = Undefined

\* C6: right after a write (setValue, patchValue, reset with a value,
\* external write) and before any effect run, status, valid, invalid,
\* disabled, pending and errors are those of the field node for the value
\* just written.
C6_ReadsAreFresh ==
    last.wrote =>
        /\ disabled = ExpectDisabled(last.value)
        /\ (schema # "validateAsync") =>
              /\ invalid = ExpectInvalid(last.value)
              /\ valid = ~ExpectInvalid(last.value)
              /\ errors.isNull = ~ExpectInvalid(last.value)
              /\ ~pending
              /\ status = (IF ExpectDisabled(last.value) THEN "DISABLED"
                           ELSE IF ExpectInvalid(last.value) THEN "INVALID"
                           ELSE "VALID")
        /\ (schema = "validateAsync" /\ last.changed) =>
              (pending /\ ~valid /\ ~invalid /\ errors.isNull /\ status = "PENDING")

\* A setValue crossed the disable rule and the effect has not run yet.
C6_Witness ==
    /\ last.op = "setValue"
    /\ last.before = "VALID"
    /\ status = "DISABLED"
    /\ valueEffectDirty

\* C7: status is always one of VALID, INVALID, DISABLED, PENDING, and it is
\* PENDING only while a validation is outstanding and the control is neither
\* disabled, valid nor invalid.
C7_PendingOnlyWhenOutstanding ==
    /\ status \in {"VALID", "INVALID", "DISABLED", "PENDING"}
    /\ (status = "PENDING") => (pending /\ ~disabled /\ ~valid /\ ~invalid)

\* A setValue started a new validation on a control that was valid.
C7_Witness ==
    /\ status = "PENDING"
    /\ last.op = "setValue"
    /\ last.before = "VALID"

\* The index of the last error of kind k in list.
LastOfKind(list, k) ==
    CHOOSE i \in 1..Len(list) :
        /\ list[i].kind = k
        /\ \A j \in (i + 1)..Len(list) : list[j].kind # k

\* C8: errors is null iff the field node's error list is empty; otherwise its
\* keys are exactly the kinds in the list and each key holds the last error of
\* that kind in list order.
C8_ErrorsFold ==
    (read.getter = "errors") =>
        /\ read.errors.isNull = (field.errors = <<>>)
        /\ ~read.errors.isNull =>
              /\ DOMAIN read.errors.map = Kinds(field.errors)
              /\ \A k \in Kinds(field.errors) :
                    read.errors.map[k] = field.errors[LastOfKind(field.errors, k)]

\* Two errors of one kind: the later one is the entry.
C8_Witness ==
    /\ read.getter = "errors"
    /\ Len(field.errors) = 2
    /\ field.errors[1].kind = field.errors[2].kind
    /\ field.errors[1] # field.errors[2]
    /\ read.errors.map[field.errors[1].kind] = field.errors[2]

\* C9: under a required rule the control is valid iff the signal's value is
\* not empty: empty gives valid false and an errors object with key
\* "required"; non-empty gives valid true and errors null; so after every
\* setValue, valid tells whether the value written is non-empty.
C9_RequiredRule ==
    (schema = "required") =>
        /\ valid = (source # Undefined)
        /\ (source = Undefined) => (~errors.isNull /\ "required" \in DOMAIN errors.map)
        /\ (source # Undefined) => errors.isNull
        /\ (last.op = "setValue") => (valid = (last.value # Undefined))

\* setValue(undefined) on a valid control: not valid again.
C9_Witness ==
    /\ schema = "required"
    /\ last.op = "setValue"
    /\ last.value = Undefined
    /\ last.before = "VALID"
    /\ ~valid
    /\ "required" \in DOMAIN errors.map

\* C10: under the rule `disabled when value > 15`, disabled is true and
\* status is DISABLED iff the signal's value is above 15, and enabled is the
\* opposite; a write that takes a disabled control to a value not above 15
\* leaves it enabled with a status other than DISABLED.
C10_DisableRule ==
    (schema = "disabledWhen") =>
        /\ disabled = (source > DisableThreshold)
        /\ (status = "DISABLED") = (source > DisableThreshold)
        /\ enabled = ~(source > DisableThreshold)
        /\ (last.wrote /\ last.before = "DISABLED" /\ ~(last.value > DisableThreshold))
              => (~disabled /\ enabled /\ status # "DISABLED")

\* A write took a disabled control back under the threshold.
C10_Witness ==
    /\ schema = "disabledWhen"
    /\ last.wrote
    /\ last.before = "DISABLED"
    /\ enabled
    /\ status = "VALID"

\* C11: under an asynchronous validator, while a validation is outstanding
\* pending is true and status is PENDING; a resolution with no errors leaves
\* pending false and status VALID; a resolution with an "async-invalid" error
\* leaves pending false, status INVALID and errors["async-invalid"] present;
\* a setValue to a new value starts a new validation: pending and PENDING.
C11_AsyncValidation ==
    (schema = "validateAsync") =>
        /\ field.pending => (pending /\ status = "PENDING")
        /\ (last.op = "resolve") =>
              /\ ~pending
              /\ (last.resolved = NoErrors) => (status = "VALID" /\ errors.isNull)
              /\ (last.resolved # NoErrors) =>
                    /\ status = "INVALID"
                    /\ ~errors.isNull
                    /\ \A i \in 1..Len(last.resolved) :
                          /\ last.resolved[i].kind \in DOMAIN errors.map
                          /\ errors.map[last.resolved[i].kind].kind = last.resolved[i].kind
        /\ (last.op = "setValue" /\ last.changed) => (pending /\ status = "PENDING")

\* A validation resolved with an error, and a setValue to a new value put
\* the invalid control back to pending.
C11_Witness ==
    /\ schema = "validateAsync"
    /\ last.op = "setValue"
    /\ last.changed
    /\ last.before = "INVALID"
    /\ pending
    /\ status = "PENDING"

\* C12: while a parent is attached, right after a setValue(v) or
\* patchValue(v) made without onlySelf and before any effect runs, the
\* parent's aggregated value holds v for the child, and the child's value and
\* the signal both are v.
C12_ParentValueReflectsCall ==
    (/\ last.op \in {"setValue", "patchValue"}
     /\ ~last.options.onlySelf
     /\ last.hadParent)
        => (group.value = last.value /\ value = last.value /\ source = last.value)

\* A patchValue changed the value under a parent that had an older one; the
\* effect has not run.
C12_Witness ==
    /\ last.op = "patchValue"
    /\ last.hadParent
    /\ ~last.options.onlySelf
    /\ last.changed
    /\ valueEffectDirty
    /\ group.value = last.value

GroupOpen == groupEvents # Deaf

\* The status a control without schema or under the required rule has for v.
ExpectStatus(v) == IF ExpectInvalid(v) THEN "INVALID" ELSE "VALID"

\* Entry i of the parent subscriber's window comes after a call.
AfterCall(i) == \E j \in 1..(i - 1) : groupEvents[j].k = "call"

GroupStatuses ==
    LET IsGroup(e) == e.k = "group"
        heard == SelectSeq(groupEvents, IsGroup)
    IN [i \in 1..Len(heard) |-> heard[i].status]

\* C13 as stated: while a parent is attached, every setValue or patchValue
\* call leaves the parent's status equal to the child's new status and makes
\* the parent emit once, whatever the options of the call.
C13_EveryCallEmitsOnce ==
    (/\ GroupOpen
     /\ last.op \in {"setValue", "patchValue"}
     /\ last.hadParent)
        => /\ group.status = status
           /\ groupEvents[Len(groupEvents)] =
                 [k |-> "group", v |-> last.value, status |-> status, notifies |-> TRUE]

\* C13 as amended: while a parent is attached, a setValue or patchValue made
\* without onlySelf leaves the parent's status equal to the child's new
\* status at once; the parent emits once, with the value and status of the
\* call, right at each call made without onlySelf and without emitEvent
\* false, and at no other moment from the first call on, so the effect runs
\* that follow add no parent emission (setValue(undefined); setValue(10)
\* under required gives parent statuses [INVALID, VALID]).
C13_NotifyingCallsEmitOnce ==
    /\ (/\ last.op \in {"setValue", "patchValue"}
        /\ ~last.options.onlySelf
        /\ last.hadParent)
          => group.status = status
    /\ GroupOpen =>
          \A i \in 1..Len(groupEvents) :
              /\ (groupEvents[i].k = "call" /\ groupEvents[i].notifies) =>
                    /\ i < Len(groupEvents)
                    /\ groupEvents[i + 1] =
                          [k |-> "group", v |-> groupEvents[i].v,
                           status |-> ExpectStatus(groupEvents[i].v), notifies |-> TRUE]
              /\ (groupEvents[i].k = "group" /\ AfterCall(i)) =>
                    (groupEvents[i - 1].k = "call" /\ groupEvents[i - 1].notifies)

\* setValue(undefined) then setValue(10) under required, and the effect has
\* run since: the parent's subscriber has INVALID, VALID and nothing more.
C13_Witness ==
    /\ schema = "required"
    /\ GroupOpen
    /\ Len(groupEvents) = 4
    /\ groupEvents[1].k = "call" /\ groupEvents[1].v = Undefined
    /\ groupEvents[3].k = "call" /\ groupEvents[3].v = 10
    /\ GroupStatuses = <<"INVALID", "VALID">>
    /\ last.op = "valueEffect"
    /\ last.byCall

\* Everything but the marks and the history: the signal, the validity state,
\* the counter, the callbacks, the parent and the scheduled effect.
Unmarked ==
    <<schema, source, field, pendingParentNotifications, onChangeCallbacks,
      parent, valueEffectDirty, group>>

\* C14: markAsTouched leaves touched true and markAsDirty leaves dirty true,
\* whatever they were; a second call of either changes nothing that the
\* first left; and neither changes the signal, the other flag or the
\* validity state (status, valid, invalid, pending, disabled, errors).
C14_MarksOnlyTheirFlag ==
    [][/\ (\E opts \in MarkOptions : markAsTouched(opts)) =>
            /\ touched'
            /\ dirty' = dirty
            /\ Unmarked' = Unmarked
            /\ status' = status /\ errors' = errors
            /\ (last.op = "markAsTouched" /\ last'.options = last.options)
                  => marks' = marks
       /\ (\E opts \in MarkOptions : markAsDirty(opts)) =>
            /\ dirty'
            /\ touched' = touched
            /\ Unmarked' = Unmarked
            /\ status' = status /\ errors' = errors
            /\ (last.op = "markAsDirty" /\ last'.options = last.options)
                  => marks' = marks]_vars

\* markAsDirty was called on an untouched, invalid control under a parent:
\* dirty, still untouched, still invalid.
C14_Witness ==
    /\ last.op = "markAsDirty"
    /\ dirty
    /\ ~touched
    /\ status = "INVALID"
    /\ marks.parentDirty

\* What a mutator call leaves behind and what it did to others: the signal,
\* the field node, the counter, the scheduled effect, the parent's state, the
\* marks, the callback list, and the parent calls and on-change invocations
\* it made.
Outcome ==
    <<source, field, pendingParentNotifications, valueEffectDirty, group, marks,
      onChangeCallbacks, parent, last.parentCalls, last.onChange>>

\* C15: from every state and for every value and options, patchValue and
\* setValue leave the same signal value and the same counter, make the same
\* parent calls with the same arguments and the same on-change invocations.
C15_PatchValueIsSetValue ==
    [][\A v \in {last'.value}, options \in {last'.options} :
          /\ (last'.op = "setValue" /\ setValue(v, options)) =>
                \A outcome \in {Outcome'} : ENABLED (patchValue(v, options) /\ Outcome' = outcome)
          /\ (last'.op = "patchValue" /\ patchValue(v, options)) =>
                \A outcome \in {Outcome'} : ENABLED (setValue(v, options) /\ Outcome' = outcome)]_vars

\* A patchValue under a parent with a callback registered: one parent call,
\* one invocation, as setValue would have made.
C15_Witness ==
    /\ last.op = "patchValue"
    /\ last.changed
    /\ Len(last.parentCalls) = 1
    /\ Len(last.onChange) = 1
    /\ pendingParentNotifications > 0

\* What a call leaves behind, apart from the calls it made.
Kept ==
    <<source, field, pendingParentNotifications, valueEffectDirty, group, marks,
      onChangeCallbacks, parent>>

\* C16: reset with a value does what setValue does with the same arguments
\* (same write, counter, parent call, on-change invocations).  reset without
\* a value writes nothing, leaves the counter and invokes no callback; when
\* onlySelf is not set and a parent is attached it makes one parent call,
\* with sourceControl = this and emitEvent as given; with onlySelf it makes
\* none and changes nothing.
C16_ResetFrame ==
    [][\A v \in {last'.value}, options \in {last'.options} :
          (last'.op = "reset" /\ reset(v, options)) =>
              IF v # Undefined
                THEN \A outcome \in {Outcome'} :
                        ENABLED (setValue(v, options) /\ Outcome' = outcome)
                ELSE /\ source' = source
                     /\ field' = field
                     /\ valueEffectDirty' = valueEffectDirty
                     /\ pendingParentNotifications' = pendingParentNotifications
                     /\ last'.onChange = <<>>
                     /\ (~options.onlySelf /\ parent # NoParent) =>
                           last'.parentCalls =
                               <<[emitEvent |-> options.emitEvent, sourceControl |-> "this"]>>
                     /\ options.onlySelf =>
                           (last'.parentCalls = <<>> /\ Kept' = Kept)]_vars

\* reset() without a value and with emitEvent: false under a parent, with a
\* callback registered and an effect run outstanding: one silent parent call.
C16_Witness ==
    /\ last.op = "reset"
    /\ last.value = Undefined
    /\ last.hadParent
    /\ last.parentCalls = <<ParentCall("false")>>
    /\ last.onChange = <<>>
    /\ onChangeCallbacks # <<>>
    /\ valueEffectDirty

\* C17: every setValue, patchValue and reset with a value, with or without
\* onlySelf and whether or not the value is new, invokes each registration
\* in the on-change list once, in registration order, with the value and
\* emitViewToModelChange !== false, unless emitModelToViewChange is false;
\* then it invokes none, yet has written the signal and notified the parent.
\* Effect runs and external writes invoke none.
C17_OnChangePerCall ==
    /\ (last.wrote /\ last.op # "write") =>
          IF last.options.emitModelToViewChange # "false"
            THEN /\ Len(last.onChange) = Len(onChangeCallbacks)
                 /\ \A i \in 1..Len(onChangeCallbacks) :
                       last.onChange[i] =
                           [fn |-> onChangeCallbacks[i], value |-> last.value,
                            emitModelEvent |-> last.options.emitViewToModelChange # "false"]
            ELSE /\ last.onChange = <<>>
                 /\ source = last.value
                 /\ (last.hadParent /\ ~last.options.onlySelf)
                       => (Len(last.parentCalls) = 1 /\ group.value = last.value)
    /\ (last.op \in {"valueEffect", "write"}) => last.onChange = <<>>

\* An onlySelf setValue of the value already held, two different callbacks
\* registered: both invoked, the first registered first.
C17_Witness ==
    /\ last.op = "setValue"
    /\ last.options.onlySelf
    /\ ~last.changed
    /\ Len(last.onChange) = 2
    /\ last.onChange[1].fn = onChangeCallbacks[1]
    /\ last.onChange[2].fn = onChangeCallbacks[2]
    /\ onChangeCallbacks[1] # onChangeCallbacks[2]

StatusOpen == statusTrace # Unheard

\* The statuses the statusChanges subscriber has received.
Statuses ==
    LET IsStatus(e) == e.k = "emit"
        heard == SelectSeq(statusTrace, IsStatus)
    IN [i \in 1..Len(heard) |-> heard[i].status]

\* The subscriber's window is a run of the effect after each setValue.
RunAfterEachCall ==
    /\ Len(statusTrace) % 2 = 0
    /\ \A i \in 1..Len(statusTrace) :
          statusTrace[i].k = IF i % 2 = 1 THEN "setValue" ELSE "emit"

\* The status a control under a synchronous schema has for v.
StatusFor(v) == IF ExpectDisabled(v) THEN "DISABLED" ELSE ExpectStatus(v)

\* C18 as stated, its general clause: the stream's emissions are the
\* statuses at the runs at which the status differs from the one observed
\* before, so no run after the first emits the status its predecessor saw.
C18_EmitsOnlyOnDifference ==
    (last.op = "statusEffect" /\ ~last.first) =>
        (last.emitted = <<status>> /\ status # last.seenBefore)

\* C18 as amended: a status that differs from the last one emitted makes
\* the effect due, and every run emits the status of that moment; with a run
\* after each setValue the statuses received are those of the values set
\* (under required: non-empty, undefined, non-empty gives VALID, INVALID,
\* VALID); consecutive emissions differ unless, between two runs, the status
\* changed, was read, and changed back.
C18_EmitsAtEachRun ==
    /\ (statusEffect.hasRun /\ statusEffect.seen # status) => StatusEffectDue
    /\ (last.op = "statusEffect") =>
          /\ last.emitted = <<status>>
          /\ statusEffect.seen = status
          /\ StatusOpen =>
                statusTrace[Len(statusTrace)] = [k |-> "emit", v |-> Undefined, status |-> status]
          /\ (~last.first /\ ~last.bumped) => status # last.seenBefore
    /\ (StatusOpen /\ RunAfterEachCall /\ schema # "validateAsync") =>
          \A i \in 1..Len(statusTrace) :
              (i % 2 = 0) => statusTrace[i].status = StatusFor(statusTrace[i - 1].v)

\* required, the value set to non-empty, undefined and non-empty again with
\* a run after each: VALID, INVALID, VALID.
C18_Witness ==
    /\ schema = "required"
    /\ StatusOpen
    /\ RunAfterEachCall
    /\ Len(statusTrace) = 6
    /\ statusTrace[1].v # Undefined
    /\ statusTrace[3].v = Undefined
    /\ statusTrace[5].v # Undefined
    /\ Statuses = <<"VALID", "INVALID", "VALID">>
    /\ last.op = "statusEffect"

\* C19: the first run of the status effect invokes no on-disabled-change
\* callback and records the disabled state; every later run invokes each
\* registration once, in order, with the new state iff it differs from the
\* recorded one, and records it; so the argument of each round of
\* invocations is the opposite of that of the toggle seen before, and a
\* callback that stays registered gets true and false in turn.
C19_DisabledChangePerToggle ==
    (last.op = "statusEffect") =>
        /\ lastDisabledState = ToTri(disabled)
        /\ last.first => (last.onDisabledChange = <<>> /\ last.recorded = "undefined")
        /\ ~last.first =>
              /\ last.recorded # "undefined"
              /\ IF last.recorded # ToTri(disabled)
                   THEN /\ Len(last.onDisabledChange) = Len(onDisabledChangeCallbacks)
                        /\ \A i \in 1..Len(onDisabledChangeCallbacks) :
                              last.onDisabledChange[i] =
                                  [fn |-> onDisabledChangeCallbacks[i], isDisabled |-> disabled]
                   ELSE last.onDisabledChange = <<>>
        /\ (last.onDisabledChange # <<>> /\ last.notifiedBefore # "undefined")
              => last.notifiedBefore # ToTri(disabled)

\* The control was disabled, enabled and disabled again, the effect running
\* each time, and two callbacks were told of the last toggle.
C19_Witness ==
    /\ last.op = "statusEffect"
    /\ disabled
    /\ last.notifiedBefore = "false"
    /\ Len(last.onDisabledChange) = 2
    /\ last.onDisabledChange[1].fn # last.onDisabledChange[2].fn
    /\ last.onDisabledChange[1].isDisabled

\* C20: in every state _forEachChild invokes its callback zero times,
\* _anyControls is false for every condition (also one that holds of the
\* control itself), _syncPendingControls is false and changes nothing, and
\* _allControlsDisabled is the control's disabled flag of that moment.
C20_AlwaysLeaf ==
    [][/\ (\E cb \in ViewCallbacks : ForEachChild(cb)) => read'.invocations = <<>>
       /\ (\E condition \in Conditions : AnyControls(condition)) => ~read'.result
       /\ SyncPendingControls =>
             /\ ~read'.result
             /\ Kept' = Kept
             /\ observerVars' = observerVars
       /\ AllControlsDisabled => read'.result = field.disabled]_vars

\* A disabled control was asked whether any control is disabled: none is,
\* since it has no children.
C20_Witness ==
    /\ read.getter = "_anyControls"
    /\ read.condition = "disabled"
    /\ disabled
    /\ ~read.result

C22_ViewEventsReachAncestors ==
    /\ (~touched /\ ~marks.parentTouched)
    /\ [][/\ (\E v \in Values : ViewInput(v)) =>
               /\ source' = last'.value
               /\ group'.value = last'.value
               /\ dirty'
               /\ marks'.parentDirty
          /\ ViewBlur => (touched' /\ marks'.parentTouched)
          /\ ~ViewBlur =>
               /\ touched' = touched
               /\ marks'.parentTouched = marks.parentTouched]_vars

\* A new value was typed and the input then lost focus: the ancestors hold
\* the value, and the control and its ancestors are dirty and touched.
C22_Witness ==
    /\ last.op = "viewBlur"
    /\ group.value = source
    /\ dirty /\ marks.parentDirty
    /\ touched /\ marks.parentTouched
    /\ valueEffectDirty
    /\ pendingParentNotifications > 0

\* The result {min: {min: n, actual: x}}.
MinError(n, x) ==
    [isNull |-> FALSE, map |-> [k \in {"min"} |-> [min |-> n, actual |-> x]]]

\* C23: the validator importMinValidator(min)(n), called with a control of
\* value x, returns null when n is null or undefined; null when x is null or
\* the empty string; null when x is not below the parsed minimum (equal
\* values, numeric strings not below it, non-numeric strings); and otherwise
\* exactly {min: {min: n, actual: x}} with n and x as they were passed.
C23_MinValidatorResult ==
    minValidator.called =>
        LET n == minValidator.n
            x == minValidator.value
            r == minValidator.result
        IN /\ IF n \in {JsNull, JsUndefined} THEN r = NullResult
              ELSE IF x \in {JsNull, JsString("")} THEN r = NullResult
              ELSE IF ~LessThan(x, parseFloat(toString(n))) THEN r = NullResult
              ELSE r = MinError(n, x)
           /\ (n = JsNumber(200) /\ x \in {JsNumber(200), JsNumber(300), JsString("2"),
                                          JsString("a"), JsUndefined})
                 => r = NullResult
           /\ (n = JsNumber(125) /\ x = JsNumber(125)) => r = NullResult
           /\ (n = JsNumber(120) /\ x = JsNumber(125)) => r = NullResult
           /\ (n = JsNumber(125) /\ x = JsNumber(120)) => r = MinError(n, x)
           /\ (n = JsNumber(200) /\ x = JsString("1")) => r = MinError(n, x)
           /\ (n = JsString("2") /\ x = JsNumber(100)) => r = MinError(n, x)

\* The minimum given as the string "2" and the value as the string "1": the
\* error carries both strings.
C23_Witness ==
    /\ minValidator.called
    /\ minValidator.n = JsString("2")
    /\ minValidator.value = JsString("1")
    /\ ~minValidator.result.isNull
    /\ minValidator.result.map["min"] = [min |-> JsString("2"), actual |-> JsString("1")]

\* C24: whatever was validated before, the result of a call is that of a
\* validator just made for the same n and called with the same value: a
\* value validated again gives the same outcome as before, also after a
\* call that returned early on an empty value (minimum 2: value 1 gives an
\* error, 3 gives null, 1 gives an error again).
C24_ResultOfCurrentValueOnly ==
    minValidator.called =>
        /\ minValidator.result =
              MinValidatorCall(importMinValidator(minValidator.n), minValidator.value).result
        /\ \A i \in 1..Len(minValidator.earlier) :
              (minValidator.earlier[i].value = minValidator.value)
                  => (minValidator.earlier[i].isNull = minValidator.result.isNull)
        /\ (/\ minValidator.n = JsNumber(200)
            /\ minValidator.value = JsNumber(100))
              => minValidator.result = MinError(JsNumber(200), JsNumber(100))

\* Minimum 2: the value 1 gave an error, the empty string returned early,
\* and 1 gives the error again.
C24_Witness ==
    /\ minValidator.n = JsNumber(200)
    /\ Len(minValidator.earlier) = 2
    /\ minValidator.earlier[1] = [value |-> JsNumber(100), isNull |-> FALSE]
    /\ minValidator.earlier[2] = [value |-> JsString(""), isNull |-> TRUE]
    /\ minValidator.value = JsNumber(100)
    /\ ~minValidator.result.isNull
    /\ minValidator.model = JsNumber(100)

\* C25: once the errors of a field validated through
\* convertOldValidatorToNewOne have been read, they are one {kind} entry per
\* key of the result the legacy validator gave for the field's current value
\* (for a validator that also reads control.dirty: on the inner control as
\* dirty as it was when the value was handed over), in key order and without
\* the contexts, and the empty list when that result is null; after a change
\* of the value the list is computed anew before it is read.
C25_ErrorsAreLegacyKinds ==
    (converted # NoConversion) =>
        /\ (converted.control.value # converted.value) => converted.needsRun
        /\ ~converted.needsRun =>
              LET result == LegacyResult(converted.legacy,
                                         [value |-> converted.value,
                                          dirty |-> converted.validatedDirty])
              IN /\ Len(converted.errors) = Len(result)
                 /\ \A i \in 1..Len(result) :
                       converted.errors[i] = [kind |-> result[i].kind]
                 /\ (converted.legacy # "cat") =>
                       \A d \in BOOLEAN :
                           LegacyResult(converted.legacy,
                                        [value |-> converted.value, dirty |-> d]) = result

\* A value under the minimum that does not match the pattern, validated by
\* the composed validator after a valid value: min and pattern, in that order.
C25_Witness ==
    /\ converted # NoConversion
    /\ converted.legacy = "minAndPattern"
    /\ ~converted.needsRun
    /\ converted.value = JsNumber(100)
    /\ converted.errors = <<[kind |-> "min"], [kind |-> "pattern"]>>
    /\ converted.dirty

\* A setValue, patchValue or reset call that wrote the signal.
CallWrote(op, wrote) == op \in {"setValue", "patchValue", "reset"} /\ wrote

\* C26: a setValue, patchValue or reset-with-value call with onlySelf makes
\* no parent call and still writes the signal; the effect run that follows
\* it finds the counter positive, and an effect run that finds the counter
\* positive makes no parent call either.
C26_OnlySelfNeverReachesParent ==
    /\ (CallWrote(last.op, last.wrote) /\ last.options.onlySelf) =>
          /\ last.parentCalls = <<>>
          /\ source = last.value
          /\ pendingParentNotifications >= 1
    /\ (/\ last.op = "valueEffect"
        /\ CallWrote(last.afterOp, last.afterWrote)
        /\ last.afterOnlySelf) =>
          /\ last.found >= 1
          /\ last.parentCalls = <<>>
    /\ (last.op = "valueEffect" /\ last.found >= 1) => last.parentCalls = <<>>

\* An onlySelf setValue changed the value under a parent and the effect has
\* run since: no parent call, the parent still holds the older value.
C26_Witness ==
    /\ last.op = "valueEffect"
    /\ last.afterOp = "setValue"
    /\ last.afterOnlySelf
    /\ last.hadParent
    /\ last.parentCalls = <<>>
    /\ group.value # source

\* The step is a setValue, patchValue or reset-with-value call.
WritingCall ==
    /\ CallWrote(last'.op, last'.wrote)
    /\ \E v \in {last'.value}, options \in {last'.options} :
          \/ last'.op = "setValue" /\ setValue(v, options)
          \/ last'.op = "patchValue" /\ patchValue(v, options)
          \/ last'.op = "reset" /\ reset(v, options)

\* C27 as stated: every setValue, patchValue and reset-with-value call raises
\* the counter by exactly one: with onlySelf, without a parent, and when the
\* call itself notifies the parent.
C27_EveryCallCounts ==
    [][WritingCall => pendingParentNotifications' = pendingParentNotifications + 1]_vars

\* C27 as amended: a setValue, patchValue or reset-with-value call raises the
\* counter by exactly one when onlySelf is set and when a parent is attached
\* (the call itself notifies it); a call without onlySelf while no parent is
\* attached leaves the counter as it is.
C27_CountsSuppressedAndNotifying ==
    [][WritingCall =>
          pendingParentNotifications' =
              IF last'.options.onlySelf \/ parent # NoParent
                THEN pendingParentNotifications + 1
                ELSE pendingParentNotifications]_vars

\* Without a parent, an onlySelf call was counted and a later call without
\* onlySelf was not.
C27_Witness ==
    /\ last.op = "patchValue"
    /\ ~last.options.onlySelf
    /\ ~last.hadParent
    /\ parent = NoParent
    /\ pendingParentNotifications = 1
    /\ valueEffectDirty

\* C28: a run of the value-change effect that finds the counter positive
\* lowers it by exactly one and makes no parent call; one that finds it zero
\* leaves it and calls the attached parent, if any, once with sourceControl
\* this; either way the run emits the signal's current value exactly once.
C28_RunTakesCreditOrNotifies ==
    (last.op = "valueEffect") =>
        /\ (last.found > 0) =>
              /\ pendingParentNotifications = last.found - 1
              /\ last.parentCalls = <<>>
        /\ (last.found = 0) =>
              /\ pendingParentNotifications = 0
              /\ last.parentCalls =
                    IF last.hadParent
                      THEN <<[emitEvent |-> "undefined", sourceControl |-> "this"]>>
                      ELSE <<>>
              /\ last.hadParent => group.value = source
        /\ last.emitted = <<source>>

\* The effect ran after an external write under a parent with no credit
\* outstanding: the parent was called and the value emitted.
C28_Witness ==
    /\ last.op = "valueEffect"
    /\ last.afterOp = "write"
    /\ last.found = 0
    /\ last.hadParent
    /\ Len(last.parentCalls) = 1
    /\ last.emitted = <<source>>
    /\ group.value = source

\* C29: the statements of a setValue, patchValue or reset-with-value call run
\* in the order counter update, signal write, parent revalidation, on-change
\* callbacks; so when the parent revalidates, the child's value and status
\* are those of the new value, the parent is called with sourceControl this
\* and emitEvent as given in the options (undefined when not given), and the
\* callbacks run after the parent has taken the new value.
C29_CallOrder ==
    ("pc" \in DOMAIN last) =>
        /\ \A i \in 1..Len(last.order) :
              last.order[i] = <<"prepareParentPropagation", "source.set",
                                "notifyParent", "emitModelChanges">>[i]
        /\ (last.pc >= 3) =>
              /\ last.parentCalls =
                    IF last.hadParent /\ ~last.options.onlySelf
                      THEN <<[emitEvent |-> last.options.emitEvent, sourceControl |-> "this"]>>
                      ELSE <<>>
              /\ (last.hadParent /\ ~last.options.onlySelf) =>
                    /\ group.value = last.value
                    /\ group.status = ExpectStatus(last.value)
              /\ source = last.value
        /\ (last.pc = 4) =>
              /\ Len(last.onChange) =
                    IF last.options.emitModelToViewChange = "false" THEN 0 ELSE 1
              /\ (last.hadParent /\ ~last.options.onlySelf) =>
                    last.parentAtOnChange = [value |-> last.value,
                                             status |-> ExpectStatus(last.value)]

\* A setValue(undefined) with emitEvent false on a valid control under the
\* required rule has returned: the parent was called once, silently, and
\* held the new value and INVALID when the callback ran.
C29_Witness ==
    /\ "pc" \in DOMAIN last
    /\ last.pc = 4
    /\ last.op = "setValue"
    /\ schema = "required"
    /\ last.value = Undefined
    /\ last.before = "VALID"
    /\ last.parentCalls = <<ParentCall("false")>>
    /\ last.parentAtOnChange = [value |-> Undefined, status |-> "INVALID"]
    /\ Len(last.onChange) = 1

\* The step is a setValue, patchValue or reset call (with or without value).
MutatorCall ==
    /\ last'.op \in {"setValue", "patchValue", "reset"}
    /\ \E v \in {last'.value}, options \in {last'.options} :
          \/ last'.op = "setValue" /\ setValue(v, options)
          \/ last'.op = "patchValue" /\ patchValue(v, options)
          \/ last'.op = "reset" /\ reset(v, options)

\* C30: the two effects never change the signal or either callback list; the
\* mutators never change the recorded disabled state; and a run of the
\* status effect leaves the counter as it found it.
C30_SharedStateFrame ==
    [][/\ (ValueEffect \/ StatusEffect) =>
             /\ source' = source
             /\ onChangeCallbacks' = onChangeCallbacks
             /\ onDisabledChangeCallbacks' = onDisabledChangeCallbacks
       /\ StatusEffect => pendingParentNotifications' = pendingParentNotifications
       /\ ValueEffect => lastDisabledState' = lastDisabledState
       /\ MutatorCall => lastDisabledState' = lastDisabledState]_vars

\* The status effect ran while a credit was outstanding and told a callback
\* that the control is disabled: the credit is still there.
C30_Witness ==
    /\ last.op = "statusEffect"
    /\ pendingParentNotifications > 0
    /\ lastDisabledState = "true"
    /\ Len(last.onDisabledChange) = 1
    /\ valueEffectDirty

-----------------------------------------------------------------------------
\* C31: the pending-notification counter is never negative, whatever the
\* interleaving of setValue / patchValue / reset calls, external writes to
\* the signal, parent attachment and effect runs.
C31_CounterNeverNegative ==
    pendingParentNotifications >= 0

\* An effect run found the counter at zero right after an external write
\* with a parent attached, and left it at zero.
C31_Witness ==
    /\ last.op = "valueEffect"
    /\ last.found = 0
    /\ last.afterOp = "write"
    /\ last.hadParent
    /\ pendingParentNotifications = 0

-----------------------------------------------------------------------------
\* C32: whenever no run of the value-change effect is scheduled (and, calls
\* being atomic here, no mutator call is in progress), the pending-
\* notification counter is zero: every increment made by a call has been
\* consumed by an effect run.
C32_QuiescentCounterZero ==
    ~valueEffectDirty => pendingParentNotifications = 0

-----------------------------------------------------------------------------
\* The emissions in the subscriber's window, in order.
Emissions == SelectSeq(trace, IsEmit)

\* C33: every run of the value-change effect emits exactly one value, the
\* signal's value at that run; so an emission that follows a setValue call
\* carries that call's value, never one written before it and overwritten,
\* and once no run is scheduled the last emitted value equals control.value.
C33_EmitsCurrentValueOncePerRun ==
    /\ last.op = "valueEffect" =>
          /\ last.emitted = <<source>>
          /\ IsOpen => (Len(trace) > 0 /\ trace[Len(trace)] = [k |-> "emit", v |-> source])
    /\ IsOpen =>
          \A i \in 2..Len(trace) :
              (IsEmit(trace[i]) /\ IsCall(trace[i - 1])) => trace[i].v = trace[i - 1].v
    /\ (IsOpen /\ ~valueEffectDirty /\ Emissions # <<>>)
          => Emissions[Len(Emissions)].v = value

\* Two setValue calls with different values came before one run: the run
\* emitted the second value only, and nothing is scheduled.
C33_Witness ==
    /\ IsOpen
    /\ KindsOf(trace) = <<"setValue", "setValue", "emit">>
    /\ trace[1].v # trace[2].v
    /\ trace[3].v = trace[2].v
    /\ ~valueEffectDirty
    /\ last.op = "valueEffect"

-----------------------------------------------------------------------------
\* The last operation was a setValue or patchValue that changed the signal
\* and asked for silence: emitEvent false, or onlySelf.
SilentChange ==
    /\ last.op \in {"setValue", "patchValue"}
    /\ last.changed
    /\ (last.options.emitEvent = "false" \/ last.options.onlySelf)

\* C34: the control's own stream does not look at the mutator options.  A
\* setValue or patchValue that changes the value with emitEvent false or
\* onlySelf schedules a run of the value-change effect, and that run emits
\* the value on valueChanges like any other; the call itself passes
\* emitEvent false on to an attached parent, or leaves the parent alone
\* under onlySelf.
C34_StreamIgnoresOptions ==
    /\ [](/\ SilentChange => valueEffectDirty
          /\ (SilentChange /\ last.options.onlySelf) => last.parentCalls = <<>>
          /\ (SilentChange /\ ~last.options.onlySelf /\ last.hadParent)
                => last.parentCalls = <<ParentCall("false")>>)
    /\ [][(SilentChange /\ ValueEffect) =>
             /\ last'.emitted = <<last.value>>
             /\ (IsOpen /\ Len(trace) < MaxTrace)
                   => trace' = Append(trace, [k |-> "emit", v |-> last.value])]_vars

\* The run that followed an onlySelf setValue under a parent emitted the
\* value the call wrote, and the subscriber received it.
C34_Witness ==
    /\ last.op = "valueEffect"
    /\ last.afterOp = "setValue"
    /\ last.afterOnlySelf
    /\ last.hadParent
    /\ last.emitted = <<source>>
    /\ IsOpen
    /\ Len(trace) >= 2
    /\ trace[Len(trace) - 1] = [k |-> "setValue", v |-> source]
    /\ trace[Len(trace)] = [k |-> "emit", v |-> source]

-----------------------------------------------------------------------------
\* The step is a setValue or patchValue call whose value is the one the
\* signal already holds.
EqualValueCall ==
    /\ last'.op \in {"setValue", "patchValue"}
    /\ last'.value = source
    /\ \E v \in {source}, options \in {last'.options} :
          \/ last'.op = "setValue" /\ setValue(v, options)
          \/ last'.op = "patchValue" /\ patchValue(v, options)

\* C35: a setValue or patchValue whose value equals the signal's current
\* value schedules no run of the value-change effect and emits nothing, and
\* still calls an attached parent once (unless onlySelf) and still invokes
\* every on-change callback with the value (unless emitModelToViewChange is
\* false).
C35_EqualValueCall ==
    [][EqualValueCall =>
          /\ valueEffectDirty' = valueEffectDirty
          /\ source' = source
          /\ last'.emitted = <<>>
          /\ (parent # NoParent /\ ~last'.options.onlySelf)
                => last'.parentCalls = <<ParentCall(last'.options.emitEvent)>>
          /\ last'.options.emitModelToViewChange # "false"
                => /\ Len(last'.onChange) = Len(onChangeCallbacks)
                   /\ \A i \in 1..Len(onChangeCallbacks) :
                         /\ last'.onChange[i].fn = onChangeCallbacks[i]
                         /\ last'.onChange[i].value = source]_vars

\* A setValue with the value already held, under a parent and with two
\* callbacks registered: one parent call, two invocations, no run scheduled.
C35_Witness ==
    /\ last.op = "setValue"
    /\ ~last.changed
    /\ last.hadParent
    /\ Len(last.parentCalls) = 1
    /\ Len(last.onChange) = 2
    /\ ~valueEffectDirty
    /\ pendingParentNotifications = 1

-----------------------------------------------------------------------------
\* The subscriber has watched since construction and has received nothing:
\* the value-change effect has not run yet.
BeforeFirstRun == IsOpen /\ Emissions = <<>>

\* C36 as stated: the first run of the value-change effect emits the signal's
\* current value, and when a setValue preceded it (as in subscribe,
\* setValue(20), run) it takes that call's counter increment.
C36_FirstRunTakesTheCallsIncrement ==
    [][(BeforeFirstRun /\ last.op = "setValue" /\ ValueEffect) =>
          /\ last'.emitted = <<source>>
          /\ pendingParentNotifications > 0
          /\ pendingParentNotifications' = pendingParentNotifications - 1]_vars

\* C36 as amended: the value-change effect is scheduled from construction
\* on, whether or not anything was written.  Its first run emits the signal's current
\* value, once; finding the counter at zero with a parent attached it asks
\* the parent to revalidate once, and finding an increment left by a
\* counted setValue (one made with onlySelf or with a parent attached) it
\* takes one instead and leaves the parent alone; a setValue made without
\* onlySelf and without a parent leaves no increment to take.  After
\* subscribe, setValue(20), run the subscriber holds [20] only.
C36_FirstRun ==
    /\ [](BeforeFirstRun => valueEffectDirty)
    /\ [][(BeforeFirstRun /\ ValueEffect) =>
             /\ last'.emitted = <<source>>
             /\ Len(trace) < MaxTrace =>
                   /\ trace' = Append(trace, [k |-> "emit", v |-> source])
                   /\ ValuesOf(Emissions') = <<source>>
             /\ (Len(trace) = 1 /\ IsCall(trace[1])) =>
                   trace' = <<trace[1], [k |-> "emit", v |-> trace[1].v]>>
             /\ (pendingParentNotifications = 0 /\ parent # NoParent) =>
                   /\ last'.parentCalls = <<ParentCall("undefined")>>
                   /\ pendingParentNotifications' = 0
             /\ parent = NoParent => last'.parentCalls = <<>>
             /\ pendingParentNotifications > 0 =>
                   /\ last'.parentCalls = <<>>
                   /\ pendingParentNotifications' = pendingParentNotifications - 1
             /\ (/\ last.op = "setValue"
                 /\ (last.hadParent \/ last.options.onlySelf)) =>
                   pendingParentNotifications > 0]_vars

\* subscribe, setValue(v) with v not the initial value under a parent, run:
\* the first run took the call's increment and the subscriber holds [v].
C36_Witness ==
    /\ IsOpen
    /\ KindsOf(trace) = <<"setValue", "emit">>
    /\ last.op = "valueEffect"
    /\ last.afterOp = "setValue"
    /\ last.found = 1
    /\ last.hadParent
    /\ last.parentCalls = <<>>
    /\ ValuesOf(trace) = <<20, 20>>
    /\ pendingParentNotifications = 0

-----------------------------------------------------------------------------
\* C37 as stated: after the first emission the statusChanges stream never
\* carries the same status twice in a row.
C37_NeverTheSameTwice ==
    StatusOpen => \A i \in 2..Len(Statuses) : Statuses[i] # Statuses[i - 1]

\* C37 as amended: the stream carries the same status twice in a row only
\* when, between the two runs that emitted it, the status changed, was read
\* (so the flags were recomputed) and changed back; a run that follows no
\* such reading emits a status that differs from the one emitted before it.
C37_SameTwiceOnlyAfterReading ==
    (StatusOpen /\ last.op = "statusEffect" /\ Len(Statuses) >= 2) =>
        /\ Statuses[Len(Statuses)] = status
        /\ Statuses[Len(Statuses) - 1] = last.seenBefore
        /\ Len(last.emitted) = 1
        /\ Statuses[Len(Statuses)] = Statuses[Len(Statuses) - 1] => last.bumped
        /\ ~last.bumped => Statuses[Len(Statuses)] # Statuses[Len(Statuses) - 1]

\* required: INVALID was emitted, the value was set, the status read, the
\* value cleared again, and the next run emitted INVALID once more.
C37_Witness ==
    /\ schema = "required"
    /\ StatusOpen
    /\ last.op = "statusEffect"
    /\ last.bumped
    /\ Len(Statuses) >= 2
    /\ Statuses[Len(Statuses)] = "INVALID"
    /\ Statuses[Len(Statuses) - 1] = "INVALID"

-----------------------------------------------------------------------------
\* The step is a call of markAsPristine or of the control's own
\* updateValueAndValidity.
InertCall ==
    \/ last'.op = "markAsPristine" /\ \E opts \in {last'.options} : markAsPristine(opts)
    \/ last'.op = "updateValueAndValidity" /\ updateValueAndValidity

\* C38: dirty and touched never go back to false: not by setValue,
\* patchValue, reset with or without a value, markAsPristine,
\* updateValueAndValidity, nor by a run of either effect.  markAsPristine
\* and the control's own updateValueAndValidity change nothing: not the
\* signal, the counter, any flag, nor what either stream has carried.
C38_MarksStay ==
    [][/\ dirty => dirty'
       /\ touched => touched'
       /\ InertCall =>
             /\ source' = source
             /\ pendingParentNotifications' = pendingParentNotifications
             /\ field' = field
             /\ marks' = marks
             /\ status' = status
             /\ trace' = trace
             /\ statusTrace' = statusTrace
             /\ last'.emitted = <<>>
             /\ last'.parentCalls = <<>>
             /\ valueEffectDirty' = valueEffectDirty
             /\ statusEffect' = statusEffect]_vars

\* markAsPristine was called on a dirty, touched control whose effects have
\* both emitted and are both scheduled again: it is dirty and touched still.
C38_Witness ==
    /\ last.op = "markAsPristine"
    /\ dirty
    /\ touched
    /\ IsOpen
    /\ Emissions # <<>>
    /\ statusEffect.hasRun
    /\ valueEffectDirty
    /\ StatusEffectDue

-----------------------------------------------------------------------------
\* How many registrations of fn a callback list holds.
Registered(list, fn) == Cardinality({ i \in 1..Len(list) : list[i] = fn })

\* The callbacks a round of invocations called, in order.
Invoked(invocations) == [i \in 1..Len(invocations) |-> invocations[i].fn]

\* list without its i-th element.
Without(list, i) == SubSeq(list, 1, i - 1) \o SubSeq(list, i + 1, Len(list))

\* after is before with one registration of fn taken out and the others
\* left in their order, or before itself when fn was not registered.
OneTakenOut(before, after, fn) ==
    IF Registered(before, fn) = 0 THEN after = before
    ELSE /\ \E i \in 1..Len(before) : before[i] = fn /\ after = Without(before, i)
         /\ Registered(after, fn) = Registered(before, fn) - 1
         /\ \A other \in ViewCallbacks \ {fn} :
               Registered(after, other) = Registered(before, other)
         /\ SelectSeq(after, LAMBDA el : el # fn) = SelectSeq(before, LAMBDA el : el # fn)

\* after is before with one more registration of fn, at the end.
OneAdded(before, after, fn) ==
    /\ Registered(after, fn) = Registered(before, fn) + 1
    /\ Len(after) = Len(before) + 1
    /\ SubSeq(after, 1, Len(before)) = before

\* C39: each registerOnChange (registerOnDisabledChange) adds one
\* registration and each _unregisterOnChange (_unregisterOnDisabledChange)
\* takes one out, so a callback registered n times and unregistered m <= n
\* times is held n - m times; unregistering a callback that is not
\* registered changes nothing, the others keep their order, and every
\* qualifying event invokes each callback once per registration held, in
\* list order.
C39_RegistrationsCount ==
    /\ [](/\ (CallWrote(last.op, last.wrote) /\ last.options.emitModelToViewChange # "false")
                => Invoked(last.onChange) = onChangeCallbacks
          /\ (/\ last.op = "statusEffect"
              /\ last.recorded # "undefined"
              /\ last.recorded # lastDisabledState)
                => Invoked(last.onDisabledChange) = onDisabledChangeCallbacks)
    /\ [][\A fn \in ViewCallbacks :
             /\ registerOnChange(fn) =>
                   OneAdded(onChangeCallbacks, onChangeCallbacks', fn)
             /\ unregisterOnChange(fn) =>
                   OneTakenOut(onChangeCallbacks, onChangeCallbacks', fn)
             /\ registerOnDisabledChange(fn) =>
                   OneAdded(onDisabledChangeCallbacks, onDisabledChangeCallbacks', fn)
             /\ unregisterOnDisabledChange(fn) =>
                   OneTakenOut(onDisabledChangeCallbacks, onDisabledChangeCallbacks', fn)]_vars

\* g then f are registered (as after f, g, f and one unregistration of f),
\* and the setValue that followed invoked g and f, once each, in that order.
C39_Witness ==
    /\ onChangeCallbacks = <<"g", "f">>
    /\ last.op = "setValue"
    /\ last.options.emitModelToViewChange # "false"
    /\ Invoked(last.onChange) = <<"g", "f">>

-----------------------------------------------------------------------------
\* The keys of a legacy errors object.
KeysOf(obj) == { obj.props[i][1] : i \in 1..Len(obj.props) }

\* C40: reactiveErrorsToSignalErrors(null) is the empty list; for a legacy
\* errors object it returns one error per entry, in the order of
\* Object.entries, with kind the entry's key and context the entry's value;
\* folding the result by kind, as the control's errors getter does, gives a
\* map whose keys are exactly the object's keys.
C40_OneErrorPerEntry ==
    reactive.called =>
        LET obj == reactive.errors
            result == reactive.result
            entries == ObjectEntries(obj)
        IN /\ obj.isNull => result = <<>>
           /\ ~obj.isNull =>
                 /\ Len(result) = Cardinality(KeysOf(obj))
                 /\ Len(result) = Len(entries)
                 /\ \A i \in 1..Len(result) :
                       /\ result[i].kind = entries[i][1]
                       /\ result[i].context = entries[i][2]
                       /\ \E j \in 1..Len(obj.props) :
                             obj.props[j] = <<result[i].kind, result[i].context>>
                 /\ DOMAIN FoldErrors(result, EmptyMap) = KeysOf(obj)
                 /\ \A k \in KeysOf(obj) :
                       \E j \in 1..Len(obj.props) :
                           obj.props[j] = <<k, FoldErrors(result, EmptyMap)[k].context>>

\* {required: 1, 7: 2, min: 2} gave three errors, the index key first.
C40_Witness ==
    /\ reactive.called
    /\ reactive.errors = [isNull |-> FALSE, props |-> <<<<"required", 1>>, <<"7", 2>>, <<"min", 2>>>>]
    /\ reactive.result = <<[kind |-> "7", context |-> 2],
                           [kind |-> "required", context |-> 1],
                           [kind |-> "min", context |-> 2]>>

====
